---- MODULE Spec2Model ----
(***************************************************************************)
(* Model of the backend adapters of airtable-local: the file-backed (CSV)  *)
(* table adapter and the remote (Airtable SDK) table adapter.              *)
(*                                                                         *)
(* Texts (identifiers, cell texts, field names) are TLA+ strings and are   *)
(* handled character by character.  A typed field value is a record        *)
(* [t, v]: t is the JavaScript type of the value and v its canonical text  *)
(* (String(x) for booleans, numbers and strings, JSON.stringify(x) for     *)
(* arrays and objects, "" for null and undefined).                         *)
(***************************************************************************)
EXTENDS Integers, Sequences, FiniteSets, TLC

\* ------------------------------------------------------------------------
\* Bounds of the model
\* ------------------------------------------------------------------------
MaxCalls == 2
MaxBaseCalls == 3
MaxBatchLen == 3
MainBatchLen == 2
MaxSorts == 2
MaxRemoteLen == 12
MaxRows == 2

\* ------------------------------------------------------------------------
\* Text primitives
\* ------------------------------------------------------------------------
DigitChars == "0123456789"
UpperChars == "ABCDEFGHIJKLMNOPQRSTUVWXYZ"
LowerChars == "abcdefghijklmnopqrstuvwxyz"

Char(s, i) == SubSeq(s, i, i)

\* position of the one-character text c in the text s, 0 when absent
RECURSIVE IndexFrom(_, _, _)
IndexFrom(s, c, i) ==
  IF i > Len(s) THEN 0
  ELSE IF Char(s, i) = c THEN i
  ELSE IndexFrom(s, c, i + 1)

IndexOf(s, c) == IndexFrom(s, c, 1)

IsDigit(c) == c \in {"0", "1", "2", "3", "4", "5", "6", "7", "8", "9"}

\* String.prototype.toLowerCase
RECURSIVE toLowerCase(_)
toLowerCase(s) ==
  IF s = "" THEN ""
  ELSE LET c == Head(s)
           u == IndexOf(UpperChars, c)
       IN (IF u # 0 THEN Char(LowerChars, u) ELSE c) \o toLowerCase(Tail(s))

\* String.prototype.trim (and the csv parser's trim option), blanks only
RECURSIVE TrimStart(_)
TrimStart(s) ==
  IF s # "" /\ Head(s) = " " THEN TrimStart(Tail(s)) ELSE s

RECURSIVE TrimEnd(_)
TrimEnd(s) ==
  IF s # "" /\ Char(s, Len(s)) = " "
  THEN TrimEnd(SubSeq(s, 1, Len(s) - 1))
  ELSE s

Trim(s) == TrimEnd(TrimStart(s))

startsWith(s, c) == s # "" /\ Head(s) = c
endsWith(s, c) == s # "" /\ Char(s, Len(s)) = c

\* id.replace(/\D/g, "")
RECURSIVE DigitsOnly(_)
DigitsOnly(s) ==
  IF s = "" THEN ""
  ELSE (IF IsDigit(Head(s)) THEN Head(s) ELSE "") \o DigitsOnly(Tail(s))

RECURSIVE AllDigits(_)
AllDigits(s) == s = "" \/ (IsDigit(Head(s)) /\ AllDigits(Tail(s)))

\* value of a text of decimal digits
RECURSIVE DigitsToNat(_)
DigitsToNat(s) ==
  IF s = "" THEN 0
  ELSE DigitsToNat(SubSeq(s, 1, Len(s) - 1)) * 10
       + (IndexOf(DigitChars, Char(s, Len(s))) - 1)

\* String(n) of a natural number
RECURSIVE NatToStr(_)
NatToStr(n) ==
  IF n < 10 THEN Char(DigitChars, n + 1)
  ELSE NatToStr(n \div 10) \o Char(DigitChars, (n % 10) + 1)

\* String.prototype.padStart(width, "0")
RECURSIVE padStart(_, _)
padStart(s, width) == IF Len(s) >= width THEN s ELSE padStart("0" \o s, width)

\* parseInt(digits) || 0, on a text that holds digits only
parseIntOr0(digits) == IF digits = "" THEN 0 ELSE DigitsToNat(digits)

\* ------------------------------------------------------------------------
\* Typed values
\* ------------------------------------------------------------------------
Null == [t |-> "null", v |-> ""]
Undefined == [t |-> "undefined", v |-> ""]
Bool(b) == [t |-> "boolean", v |-> IF b THEN "true" ELSE "false"]
Num(n) == [t |-> "number", v |-> NatToStr(n)]
Str(s) == [t |-> "string", v |-> s]
Json(s) == [t |-> "object", v |-> s]

\* JavaScript truthiness of a value
Truthy(x) ==
  CASE x.t = "null" -> FALSE
    [] x.t = "undefined" -> FALSE
    [] x.t = "boolean" -> x.v = "true"
    [] x.t = "number" -> x.v # "0"
    [] x.t = "string" -> x.v # ""
    [] OTHER -> TRUE

\* Number(text) on texts of decimal digits with blanks around them; every
\* other text of the model stands for NaN.
IsNumberText(s) == Trim(s) # "" /\ AllDigits(Trim(s))
Number(s) == Num(DigitsToNat(Trim(s)))

\* JSON.parse on the JSON texts of the model: an array of naturals, with
\* optional blanks, or the empty object.  Any other text does not parse.
RECURSIVE RemoveBlanks(_)
RemoveBlanks(s) ==
  IF s = "" THEN ""
  ELSE (IF Head(s) = " " THEN "" ELSE Head(s)) \o RemoveBlanks(Tail(s))

\* a comma separated list of naturals, no blanks
RECURSIVE IsNatList(_, _)
IsNatList(s, afterDigit) ==
  IF s = "" THEN afterDigit
  ELSE IF IsDigit(Head(s)) THEN IsNatList(Tail(s), TRUE)
  ELSE IF Head(s) = "," THEN afterDigit /\ IsNatList(Tail(s), FALSE)
  ELSE FALSE

JsonParses(s) ==
  LET c == RemoveBlanks(s)
      inner == SubSeq(c, 2, Len(c) - 1)
  IN /\ Len(c) >= 2
     /\ \/ startsWith(c, "{") /\ endsWith(c, "}") /\ inner = ""
        \/ startsWith(c, "[") /\ endsWith(c, "]")
           /\ (inner = "" \/ IsNatList(inner, FALSE))

JsonParse(s) == Json(RemoveBlanks(s))

\* String(value) for every value
valueToString_String(x) ==
  IF x.t = "object"
  THEN (IF SubSeq(x.v, 1, 1) = "[" THEN SubSeq(x.v, 2, Len(x.v) - 1)
        ELSE "[object Object]")
  ELSE IF x.t = "null" THEN "null"
  ELSE IF x.t = "undefined" THEN "undefined"
  ELSE x.v

\* src/utils/helpers.ts valueToString
valueToString(x) ==
  IF x.t \in {"null", "undefined"} THEN ""
  ELSE x.v

\* String(x) of JavaScript: an array is joined with commas, an object gives
\* the text [object Object]
JsString(x) ==
  IF x.t = "object"
  THEN (IF startsWith(x.v, "[") THEN SubSeq(x.v, 2, Len(x.v) - 1)
        ELSE "[object Object]")
  ELSE IF x.t = "null" THEN "null"
  ELSE IF x.t = "undefined" THEN "undefined"
  ELSE x.v

\* parseValue that takes only the lower-case texts for booleans
parseValue_ExactBooleans(value) ==
  IF value = "" THEN Null
  ELSE IF value = "true" THEN Bool(TRUE)
  ELSE IF value = "false" THEN Bool(FALSE)
  ELSE IF IsNumberText(value) THEN Number(value)
  ELSE IF /\ \/ startsWith(value, "[") /\ endsWith(value, "]")
             \/ startsWith(value, "{") /\ endsWith(value, "}")
          /\ JsonParses(value)
       THEN JsonParse(value)
  ELSE Str(value)

\* CsvTableAdapter.parseValue
parseValue(value) ==
  IF value = "" THEN Null
  ELSE IF toLowerCase(value) = "true" THEN Bool(TRUE)
  ELSE IF toLowerCase(value) = "false" THEN Bool(FALSE)
  ELSE IF IsNumberText(value) THEN Number(value)
  ELSE IF /\ \/ startsWith(value, "[") /\ endsWith(value, "]")
             \/ startsWith(value, "{") /\ endsWith(value, "}")
          /\ JsonParses(value)
       THEN JsonParse(value)
  ELSE Str(value)

\* ------------------------------------------------------------------------
\* Field sets (JavaScript objects: functions from field names to values)
\* ------------------------------------------------------------------------
Min(S) == CHOOSE n \in S : \A k \in S : n <= k
Max(S) == CHOOSE n \in S : \A k \in S : k <= n

EmptyFields == [k \in {} |-> Null]

SeqToSet(q) == {q[i] : i \in 1..Len(q)}

\* { ...a, ...b } and Object.assign(a, b)
Assign(a, b) ==
  [k \in (DOMAIN a) \cup (DOMAIN b) |-> IF k \in DOMAIN b THEN b[k] ELSE a[k]]

\* ------------------------------------------------------------------------
\* CsvRecordAdapter
\* ------------------------------------------------------------------------
\* constructor(id, fields)
CsvRecordAdapter(id, fields) ==
  [id |-> id,
   fields |-> fields,
   name |-> IF "Name" \in DOMAIN fields /\ Truthy(fields["Name"])
            THEN fields["Name"] ELSE Str(id)]

\* this.fields[f], without the ?? null
getCellValue_Raw(rec, f) ==
  IF f \in DOMAIN rec.fields THEN rec.fields[f] ELSE Undefined

\* getCellValue: this.fields[f] ?? null
getCellValue(rec, f) ==
  IF f \in DOMAIN rec.fields /\ rec.fields[f].t \notin {"null", "undefined"}
  THEN rec.fields[f]
  ELSE Null

getCellValueAsString(rec, f) == valueToString(getCellValue(rec, f))

\* AirtableRecordAdapter.getCellValue: this.record.get(f) ?? null
AirtableGetCellValue(rec, f) ==
  LET got == IF f \in DOMAIN rec.fields THEN rec.fields[f] ELSE Undefined
  IN IF got.t \in {"null", "undefined"} THEN Null ELSE got

\* _updateFields that replaces the fields of the record
updateFields_Replace(rec, fields) ==
  [id |-> rec.id,
   fields |-> fields,
   name |-> IF "Name" \in DOMAIN fields /\ fields["Name"].t # "undefined"
            THEN fields["Name"] ELSE rec.name]

\* _updateFields(fields)
updateFields(rec, fields) ==
  [id |-> rec.id,
   fields |-> Assign(rec.fields, fields),
   name |-> IF "Name" \in DOMAIN fields /\ fields["Name"].t # "undefined"
            THEN fields["Name"] ELSE rec.name]

\* _getAllFields()
getAllFields(rec) == rec.fields

\* ------------------------------------------------------------------------
\* Map<string, CsvRecordAdapter>: a sequence of records in insertion order
\* ------------------------------------------------------------------------
MapKeys(m) == {m[i].id : i \in 1..Len(m)}
MapHas(m, id) == id \in MapKeys(m)
MapIndex(m, id) == CHOOSE i \in 1..Len(m) : m[i].id = id
MapGet(m, id) == m[MapIndex(m, id)]

\* Map.set: an existing key keeps its position
MapSet(m, id, rec) ==
  IF MapHas(m, id)
  THEN [m EXCEPT ![MapIndex(m, id)] = rec]
  ELSE Append(m, rec)

\* Map.delete
MapDelete(m, id) ==
  IF MapHas(m, id)
  THEN SubSeq(m, 1, MapIndex(m, id) - 1) \o SubSeq(m, MapIndex(m, id) + 1, Len(m))
  ELSE m

\* ------------------------------------------------------------------------
\* The backing file: header and data rows as the csv parser sees them.
\* A row is a function from the header's column names to cell texts.
\* ------------------------------------------------------------------------
NoFile == [exists |-> FALSE, header |-> <<>>, rows |-> <<>>]

\* parse(content, {columns: true, trim: true}): the cells, trimmed
parseCsv(file) ==
  [i \in 1..Len(file.rows) |->
     [c \in DOMAIN file.rows[i] |-> Trim(file.rows[i][c])]]

\* key.toLowerCase() !== "id"
NotIdKey(key) == toLowerCase(key) # "id"

\* row.id || row.Id || row.ID, "" when none is a non-empty text
RowId(row) ==
  IF "id" \in DOMAIN row /\ row["id"] # "" THEN row["id"]
  ELSE IF "Id" \in DOMAIN row /\ row["Id"] # "" THEN row["Id"]
  ELSE IF "ID" \in DOMAIN row /\ row["ID"] # "" THEN row["ID"]
  ELSE ""

\* the fields of a row: every column but the identifier column, parsed
RowFields(row) ==
  [k \in {c \in DOMAIN row : NotIdKey(c)} |-> parseValue(row[k])]

\* the loop over the rows of loadFromCsv
RECURSIVE LoadRows(_, _, _, _)
LoadRows(rows, i, recs, next) ==
  IF i > Len(rows) THEN [records |-> recs, next |-> next]
  ELSE LET rid == RowId(rows[i])
           id == IF rid # "" THEN rid ELSE "rec" \o NatToStr(next)
           next2 == IF rid # "" THEN next ELSE next + 1
       IN LoadRows(rows, i + 1,
                   MapSet(recs, id, CsvRecordAdapter(id, RowFields(rows[i]))),
                   next2)

\* Math.max(...ids.map(id => parseInt(id.replace(/\D/g, "")) || 0))
MaxId(recs) ==
  LET nums == {parseIntOr0(DigitsOnly(recs[i].id)) : i \in 1..Len(recs)}
  IN CHOOSE n \in nums : \A k \in nums : k <= n

\* the field descriptors made from the header
FieldDescriptors(names) ==
  [i \in 1..Len(names) |->
     [id |-> "fld" \o NatToStr(i - 1), name |-> names[i],
      type |-> "singleLineText"]]

\* The table after the constructor has run loadFromCsv on the file
loadFromCsv(file) ==
  LET rows == parseCsv(file)
      empty == [records |-> <<>>, fieldNames |-> <<>>, fields |-> <<>>,
                nextRecordId |-> 1]
  IN IF ~file.exists THEN empty
     ELSE IF Len(rows) = 0 THEN empty
     ELSE LET loaded == LoadRows(rows, 1, <<>>, 1)
          IN [records |-> loaded.records,
              fieldNames |-> file.header,
              fields |-> FieldDescriptors(file.header),
              nextRecordId |-> MaxId(loaded.records) + 1]

\* the default cast of csv-stringify: a boolean is written as 1 or as the
\* empty text, a number and a string as they are, an object as its JSON
\* text, null and undefined as the empty text
StringifyCell(x) ==
  CASE x.t \in {"null", "undefined"} -> ""
    [] x.t = "boolean" -> (IF x.v = "true" THEN "1" ELSE "")
    [] OTHER -> x.v

\* the columns option of the save: id, then the declared non-id columns
SaveColumns(names) == <<"id">> \o SelectSeq(names, NotIdKey)

\* { id: record.id, ...record._getAllFields() }
SaveRow(rec) == Assign([id |-> Str(rec.id)], getAllFields(rec))

\* the content that saveToCsv writes
CsvOutput(recs, names) ==
  LET cols == SaveColumns(names)
      colSet == {cols[j] : j \in 1..Len(cols)}
  IN [exists |-> TRUE,
      header |-> cols,
      rows |-> [i \in 1..Len(recs) |->
                 [c \in colSet |->
                    IF c \in DOMAIN SaveRow(recs[i])
                    THEN StringifyCell(SaveRow(recs[i])[c])
                    ELSE ""]]]

\* saveToCsv without the early return on autoSave
saveToCsv_Always(auto, recs, names, file) == CsvOutput(recs, names)

\* saveToCsv: the file after the call
saveToCsv(auto, recs, names, file) ==
  IF ~auto THEN file ELSE CsvOutput(recs, names)

\* ------------------------------------------------------------------------
\* State
\* ------------------------------------------------------------------------
VARIABLES
  records,       \* CsvTableAdapter.records, in Map insertion order
  fieldNames,    \* CsvTableAdapter.fieldNames
  fields,        \* CsvTableAdapter.fields
  nextRecordId,  \* CsvTableAdapter.nextRecordId
  autoSave,      \* CsvTableAdapter.autoSave
  csvFile,       \* the content of the file at csvFilePath
  loadedFile,    \* the content of the file when the table was constructed
  held,          \* a query result that the caller holds, and its records now
  remoteRecords, \* the records that the remote service holds
  requests,      \* the update requests that the last remote call sent
  baseKind,      \* which base is in use: "csv", "mock", "airtable", "none"
  tables,        \* the field tables of the base
  tableMap,      \* the field tableMap of the base, in Map insertion order
  nextObject,    \* the identity of the next table object that is made
  returned,      \* the tables that getTable has returned so far
  knownNames,    \* the table names that the base has been told of so far
  lastBaseOp,    \* the last call on the base, with its outcome
  nCalls,        \* number of calls made so far (bounds the model)
  lastOp         \* the last call on the table, with its outcome

csvVars == <<records, fieldNames, fields, nextRecordId, autoSave, csvFile,
             loadedFile, held>>
remoteVars == <<remoteRecords, requests>>
baseVars == <<baseKind, tables, tableMap, nextObject, returned, knownNames,
              lastBaseOp>>
vars == <<csvVars, remoteVars, baseVars, nCalls, lastOp>>

\* ------------------------------------------------------------------------
\* Calls and their outcomes
\* ------------------------------------------------------------------------
NoError == [kind |-> "", class |-> "", id |-> ""]

\* new Error(`Record with ID "${id}" not found in table "${name}"`)
RecordNotFound(id) == [kind |-> "record-not-found", class |-> "Error", id |-> id]

NoOptions == [hasIds |-> FALSE, recordIds |-> <<>>, sorts |-> <<>>]

BatchOps == {"updateRecords", "deleteRecords", "createRecords"}

\* what a call keeps of a batched call that came right before it
NoBefore == [op |-> "", batch |-> <<>>, done |-> 0, error |-> NoError]

\* a call: its name and arguments, the error it threw, the identifiers it
\* returned, whether it wrote the file, the records of its query result and
\* the number of entries of a batch that it went through without an error
FirstCall(op) ==
  [op |-> op, id |-> "", fields |-> EmptyFields, batch |-> <<>>,
   options |-> NoOptions, error |-> NoError, ret |-> <<>>,
   wrote |-> FALSE, result |-> <<>>, done |-> 0, justCreated |-> "",
   before |-> NoBefore]

\* justCreated: the identifier that the call before this one returned, when
\* that call was createRecordAsync; before: the call before this one, when
\* it was a batched call
Call(op) ==
  [FirstCall(op) EXCEPT
     !.justCreated = IF lastOp.op = "create" THEN lastOp.ret[1] ELSE "",
     !.before = IF lastOp.op \in BatchOps
                THEN [op |-> lastOp.op, batch |-> lastOp.batch,
                      done |-> lastOp.done, error |-> lastOp.error]
                ELSE NoBefore]

\* ------------------------------------------------------------------------
\* Inputs of the model
\* ------------------------------------------------------------------------
Row1(a) == [Name |-> a]
Row2(a, b) == [Name |-> a, Flag |-> b]
Row3(i, a, b) == [id |-> i, Name |-> a, Flag |-> b]
RowI(i, a) == [Id |-> i, Name |-> a]

InitFiles ==
  { NoFile,
    [exists |-> TRUE, header |-> <<"id", "Name">>, rows |-> <<>>],
    [exists |-> TRUE, header |-> <<"id", "Name", "Flag">>,
     rows |-> <<Row3("rec001", "a", "true"), Row3("rec002", "b", "[1, 2]")>>],
    [exists |-> TRUE, header |-> <<"Name", "Flag">>,
     rows |-> <<Row2("b", "42"), Row2("", "x")>>],
    [exists |-> TRUE, header |-> <<"Id", "Name">>,
     rows |-> <<RowI("7", " a "), RowI("", "FALSE")>>] }

InputFieldSets ==
  { [Name |-> Str("z"), Flag |-> Bool(TRUE)],
    [id |-> Str("rec001"), Extra |-> Num(5)],
    [Name |-> Null, Flag |-> Undefined] }

UnknownIds == {"rec999"}

\* the identifiers a caller passes: those of the table, those that the last
\* call returned and unknown ones
IdArgs == MapKeys(records) \cup SeqToSet(lastOp.ret) \cup UnknownIds

\* ------------------------------------------------------------------------
\* CsvQueryResultAdapter: a result holds the record objects of the table
\* ------------------------------------------------------------------------
\* snapshot: the records as they were when the result was returned;
\* records: the same objects as they are now; live: whether the table still
\* holds the object
NoResult == [has |-> FALSE, snapshot |-> <<>>, records |-> <<>>, live |-> <<>>]

\* the records that the remote service holds at the start
RemoteStore ==
  <<[id |-> "recA", fields |-> [Name |-> Str("a"), Count |-> Num(0)]],
    [id |-> "recB", fields |-> [Name |-> Str("b")]]>>

\* new CsvQueryResultAdapter(records)
Hold(result) ==
  [has |-> TRUE, snapshot |-> result, records |-> result,
   live |-> [i \in 1..Len(result) |-> TRUE]]

\* the held objects after a call that leaves the table with the records
\* recs: an object that the table still holds is the table's record, written
\* in place by _updateFields; a deleted object stays as it was; a table that
\* is constructed again holds new objects
Track(h, recs, reopened) ==
  LET Same(i) == h.live[i] /\ ~reopened /\ MapHas(recs, h.records[i].id)
  IN [h EXCEPT
        !.records = [i \in 1..Len(h.records) |->
                       IF Same(i) THEN MapGet(recs, h.records[i].id)
                       ELSE h.records[i]],
        !.live = [i \in 1..Len(h.records) |-> Same(i)]]

\* ------------------------------------------------------------------------
\* Bases: CsvBaseAdapter, MockBase, AirtableBaseAdapter
\* ------------------------------------------------------------------------
\* a table object of a base; obj tells one object from another
Table(id, name, obj) == [id |-> id, name |-> name, obj |-> obj]

NoTable == Table("", "", 0)

\* Map<string, Table>: (key, table) entries in insertion order
TableMapKeys(m) == [i \in 1..Len(m) |-> m[i].key]

TableMapHas(m, k) == \E i \in 1..Len(m) : m[i].key = k

TableMapGet(m, k) ==
  IF TableMapHas(m, k)
  THEN m[CHOOSE i \in 1..Len(m) : m[i].key = k].table
  ELSE NoTable

TableMapSet(m, k, t) ==
  IF TableMapHas(m, k)
  THEN [i \in 1..Len(m) |->
          IF m[i].key = k THEN [key |-> k, table |-> t] ELSE m[i]]
  ELSE Append(m, [key |-> k, table |-> t])

\* the state of a base object
BaseState(ts, m, n) == [tables |-> ts, tableMap |-> m, nextObject |-> n]

NoBaseError ==
  [kind |-> "", class |-> "", requested |-> "", listsAvailable |-> FALSE,
   available |-> <<>>, status |-> 0, namesReadScope |-> FALSE]

\* new Error(`Table "${nameOrId}" not found. Available tables: ${keys.join(", ")}`)
CsvTableNotFound(nameOrId, keys) ==
  [kind |-> "table-not-found", class |-> "Error",
   requested |-> nameOrId, listsAvailable |-> TRUE,
   available |-> keys, status |-> 0, namesReadScope |-> FALSE]

\* new Error(`Table "${nameOrId}" not found in base`)
MockTableNotFound(nameOrId) ==
  [kind |-> "table-not-found", class |-> "Error",
   requested |-> nameOrId, listsAvailable |-> FALSE,
   available |-> <<>>, status |-> 0, namesReadScope |-> FALSE]

\* new Error(`Failed to fetch table metadata: ${status} ${statusText}. Make
\* sure your API token has 'schema.bases:read' scope. Details: ...`)
MetadataFailed(status) ==
  [kind |-> "metadata-failed", class |-> "Error",
   requested |-> "", listsAvailable |-> FALSE,
   available |-> <<>>, status |-> status, namesReadScope |-> TRUE]

\* the error with which fetch itself rejects
NetworkError ==
  [kind |-> "network", class |-> "TypeError",
   requested |-> "", listsAvailable |-> FALSE,
   available |-> <<>>, status |-> 0, namesReadScope |-> FALSE]

\* the outcome of a call on a base
BaseOutcome(b, ret, error) == [base |-> b, ret |-> ret, error |-> error]

\* CsvBaseAdapter.loadTables: a table for each csv file of the directory,
\* from file i on
RECURSIVE CsvLoadTables(_, _, _)
CsvLoadTables(b, csvFiles, i) ==
  IF i > Len(csvFiles) THEN b
  ELSE LET table == Table(csvFiles[i], csvFiles[i], b.nextObject)
       IN  CsvLoadTables(
             BaseState(Append(b.tables, table),
                       TableMapSet(b.tableMap, csvFiles[i], table),
                       b.nextObject + 1),
             csvFiles, i + 1)

\* new CsvBaseAdapter(dataDir)
CsvBaseAdapter(csvFiles) == CsvLoadTables(BaseState(<<>>, <<>>, 1), csvFiles, 1)

\* CsvBaseAdapter.getTable
CsvBaseGetTable(b, nameOrId) ==
  IF ~TableMapHas(b.tableMap, nameOrId)
  THEN BaseOutcome(b, NoTable,
                   CsvTableNotFound(nameOrId, TableMapKeys(b.tableMap)))
  ELSE BaseOutcome(b, TableMapGet(b.tableMap, nameOrId), NoBaseError)

\* the loop of the constructor of MockBase, from table i on
RECURSIVE MockSetAll(_, _, _)
MockSetAll(m, ts, i) ==
  IF i > Len(ts) THEN m
  ELSE MockSetAll(TableMapSet(TableMapSet(m, ts[i].id, ts[i]),
                              ts[i].name, ts[i]),
                  ts, i + 1)

\* new MockBase(tables): the tables are objects that the caller made
MockBase(ts) == BaseState(ts, MockSetAll(<<>>, ts, 1), Len(ts) + 1)

\* MockBase.getTable
MockBaseGetTable(b, nameOrId) ==
  IF ~TableMapHas(b.tableMap, nameOrId)
  THEN BaseOutcome(b, NoTable, MockTableNotFound(nameOrId))
  ELSE BaseOutcome(b, TableMapGet(b.tableMap, nameOrId), NoBaseError)

\* MockBase.addTable(table), with a table that the caller has just made
MockBaseAddTable(b, id, name) ==
  LET table == Table(id, name, b.nextObject)
  IN  BaseOutcome(
        BaseState(Append(b.tables, table),
                  TableMapSet(TableMapSet(b.tableMap, id, table), name, table),
                  b.nextObject + 1),
        NoTable, NoBaseError)

\* new AirtableTableAdapter(tableName, airtableBase); tables.push; tableMap.set
AirtablePushAndSet(b, tableName) ==
  LET tableAdapter == Table(tableName, tableName, b.nextObject)
  IN  BaseState(Append(b.tables, tableAdapter),
                TableMapSet(b.tableMap, tableName, tableAdapter),
                b.nextObject + 1)

\* the loop of the constructor of AirtableBaseAdapter, from name i on
RECURSIVE AirtableDeclare(_, _, _)
AirtableDeclare(b, tableNames, i) ==
  IF i > Len(tableNames) THEN b
  ELSE AirtableDeclare(AirtablePushAndSet(b, tableNames[i]), tableNames, i + 1)

\* new AirtableBaseAdapter(apiKey, baseId, tableNames)
AirtableBaseAdapter(tableNames) ==
  AirtableDeclare(BaseState(<<>>, <<>>, 1), tableNames, 1)

\* getTable that makes a new table on every call
AirtableBaseGetTable_Uncached(b, nameOrId) ==
  LET table == Table(nameOrId, nameOrId, b.nextObject)
  IN  BaseOutcome(
        BaseState(b.tables, TableMapSet(b.tableMap, nameOrId, table),
                  b.nextObject + 1),
        table, NoBaseError)

\* AirtableBaseAdapter.getTable
AirtableBaseGetTable(b, nameOrId) ==
  IF TableMapHas(b.tableMap, nameOrId)
  THEN BaseOutcome(b, TableMapGet(b.tableMap, nameOrId), NoBaseError)
  ELSE LET table == Table(nameOrId, nameOrId, b.nextObject)
       IN  BaseOutcome(
             BaseState(b.tables, TableMapSet(b.tableMap, nameOrId, table),
                       b.nextObject + 1),
             table, NoBaseError)

\* AirtableBaseAdapter.addTable
AirtableBaseAddTable(b, tableName) ==
  IF ~TableMapHas(b.tableMap, tableName)
  THEN BaseOutcome(AirtablePushAndSet(b, tableName), NoTable, NoBaseError)
  ELSE BaseOutcome(b, NoTable, NoBaseError)

\* the answers of the metadata endpoint
MetadataOk(names) == [kind |-> "ok", names |-> names, status |-> 200]

MetadataStatus(status) == [kind |-> "status", names |-> <<>>, status |-> status]

MetadataUnreachable == [kind |-> "network", names |-> <<>>, status |-> 0]

\* AirtableBaseAdapter.fetchTableNames
fetchTableNames(response) ==
  IF response.kind = "network" THEN [names |-> <<>>, error |-> NetworkError]
  ELSE IF response.kind = "status"
  THEN [names |-> <<>>, error |-> MetadataFailed(response.status)]
  ELSE [names |-> response.names, error |-> NoBaseError]

\* the loop of loadAllTables, from name i on
RECURSIVE AirtableLoadLoop(_, _, _)
AirtableLoadLoop(b, tableNames, i) ==
  IF i > Len(tableNames) THEN b
  ELSE AirtableLoadLoop(
         IF ~TableMapHas(b.tableMap, tableNames[i])
         THEN AirtablePushAndSet(b, tableNames[i])
         ELSE b,
         tableNames, i + 1)

\* AirtableBaseAdapter.loadAllTables
AirtableBaseLoadAllTables(b, response) ==
  LET fetched == fetchTableNames(response)
  IN  IF fetched.error # NoBaseError
      THEN BaseOutcome(b, NoTable, fetched.error)
      ELSE BaseOutcome(AirtableLoadLoop(b, fetched.names, 1), NoTable,
                       NoBaseError)

\* a call on the base, with its outcome
NoBaseCall ==
  [op |-> "", arg |-> "", response |-> MetadataOk(<<>>), ret |-> NoTable,
   error |-> NoBaseError]

BaseCall(op, arg, response, out) ==
  [op |-> op, arg |-> arg, response |-> response, ret |-> out.ret,
   error |-> out.error]

\* no base is in use
NoBase ==
  /\ baseKind = "none"
  /\ tables = <<>>
  /\ tableMap = <<>>
  /\ nextObject = 1
  /\ returned = {}
  /\ knownNames = {}
  /\ lastBaseOp = NoBaseCall

\* the base takes the state of an outcome
BaseBecomes(out) ==
  /\ tables' = out.base.tables
  /\ tableMap' = out.base.tableMap
  /\ nextObject' = out.base.nextObject

TheBase == BaseState(tables, tableMap, nextObject)

\* CsvBaseAdapter.getTable(nameOrId)
CsvGetTable(nameOrId) ==
  /\ nCalls < MaxBaseCalls
  /\ baseKind = "csv"
  /\ \E out \in {CsvBaseGetTable(TheBase, nameOrId)} :
       /\ BaseBecomes(out)
       /\ lastBaseOp' = BaseCall("getTable", nameOrId, MetadataOk(<<>>), out)
       /\ returned' = IF out.error = NoBaseError
                      THEN returned \cup {out.ret} ELSE returned
  /\ nCalls' = nCalls + 1
  /\ UNCHANGED <<baseKind, knownNames>>
  /\ UNCHANGED <<csvVars, remoteVars, lastOp>>

\* MockBase.getTable(nameOrId)
MockGetTable(nameOrId) ==
  /\ nCalls < MaxBaseCalls
  /\ baseKind = "mock"
  /\ \E out \in {MockBaseGetTable(TheBase, nameOrId)} :
       /\ BaseBecomes(out)
       /\ lastBaseOp' = BaseCall("getTable", nameOrId, MetadataOk(<<>>), out)
       /\ returned' = IF out.error = NoBaseError
                      THEN returned \cup {out.ret} ELSE returned
  /\ nCalls' = nCalls + 1
  /\ UNCHANGED <<baseKind, knownNames>>
  /\ UNCHANGED <<csvVars, remoteVars, lastOp>>

\* MockBase.addTable(new MockTable(id, name))
MockAddTable(id, name) ==
  /\ nCalls < MaxBaseCalls
  /\ baseKind = "mock"
  /\ \E out \in {MockBaseAddTable(TheBase, id, name)} :
       /\ BaseBecomes(out)
       /\ lastBaseOp' = BaseCall("addTable", name, MetadataOk(<<>>), out)
  /\ knownNames' = knownNames \cup {name}
  /\ nCalls' = nCalls + 1
  /\ UNCHANGED <<baseKind, returned>>
  /\ UNCHANGED <<csvVars, remoteVars, lastOp>>

\* AirtableBaseAdapter.getTable(nameOrId)
AirtableGetTable(nameOrId) ==
  /\ nCalls < MaxBaseCalls
  /\ baseKind = "airtable"
  /\ \E out \in {AirtableBaseGetTable(TheBase, nameOrId)} :
       /\ BaseBecomes(out)
       /\ lastBaseOp' = BaseCall("getTable", nameOrId, MetadataOk(<<>>), out)
       /\ returned' = returned \cup {out.ret}
  /\ knownNames' = knownNames \cup {nameOrId}
  /\ nCalls' = nCalls + 1
  /\ UNCHANGED baseKind
  /\ UNCHANGED <<csvVars, remoteVars, lastOp>>

\* AirtableBaseAdapter.addTable(tableName)
AirtableAddTable(tableName) ==
  /\ nCalls < MaxBaseCalls
  /\ baseKind = "airtable"
  /\ \E out \in {AirtableBaseAddTable(TheBase, tableName)} :
       /\ BaseBecomes(out)
       /\ lastBaseOp' = BaseCall("addTable", tableName, MetadataOk(<<>>), out)
  /\ knownNames' = knownNames \cup {tableName}
  /\ nCalls' = nCalls + 1
  /\ UNCHANGED <<baseKind, returned>>
  /\ UNCHANGED <<csvVars, remoteVars, lastOp>>

\* AirtableBaseAdapter.loadAllTables(), the endpoint answering with response
loadAllTables(response) ==
  /\ nCalls < MaxBaseCalls
  /\ baseKind = "airtable"
  /\ \E out \in {AirtableBaseLoadAllTables(TheBase, response)} :
       /\ BaseBecomes(out)
       /\ lastBaseOp' = BaseCall("loadAllTables", "", response, out)
       /\ knownNames' = IF out.error = NoBaseError
                        THEN knownNames \cup SeqToSet(response.names)
                        ELSE knownNames
  /\ nCalls' = nCalls + 1
  /\ UNCHANGED <<baseKind, returned>>
  /\ UNCHANGED <<csvVars, remoteVars, lastOp>>

\* ------------------------------------------------------------------------
\* Construction
\* ------------------------------------------------------------------------
\* new CsvTableAdapter(name, csvFilePath, autoSave)
Construct(file, auto) ==
  \E t \in {loadFromCsv(file)} :
     /\ records' = t.records
     /\ fieldNames' = t.fieldNames
     /\ fields' = t.fields
     /\ nextRecordId' = t.nextRecordId
     /\ autoSave' = auto
     /\ csvFile' = file
     /\ loadedFile' = file

InitOver(files) ==
  \E file \in files, auto \in BOOLEAN :
    \E t \in {loadFromCsv(file)} :
       /\ records = t.records
       /\ fieldNames = t.fieldNames
       /\ fields = t.fields
       /\ nextRecordId = t.nextRecordId
       /\ autoSave = auto
       /\ csvFile = file
       /\ loadedFile = file
       /\ held = NoResult
       /\ remoteRecords = RemoteStore
       /\ requests = <<>>
       /\ NoBase
       /\ nCalls = 0
       /\ lastOp = FirstCall("construct")

Init == InitOver(InitFiles)

\* a new adapter is constructed over the file as it is now
Reopen ==
  /\ nCalls < MaxCalls
  /\ nCalls' = nCalls + 1
  /\ Construct(csvFile, autoSave)
  /\ lastOp' = Call("construct")
  /\ UNCHANGED <<remoteVars, baseVars>>
  /\ held' = Track(held, records', TRUE)

\* ------------------------------------------------------------------------
\* CsvTableAdapter: single-record operations
\* ------------------------------------------------------------------------
\* the identifier that createRecordAsync makes from the counter
NewId(n) == "rec" \o padStart(NatToStr(n), 10)

\* CreateRecord with the counter advanced before the identifier is made for
\* the Map, as if the record were stored after the increment
CreateRecord_StoredAfterIncrement(recs, n, fs) ==
  [records |-> MapSet(recs, NewId(n + 1), CsvRecordAdapter(NewId(n + 1), fs)),
   next |-> n + 1,
   id |-> NewId(n)]

\* createRecordAsync(fs) with the counter at n, without the save: the
\* records, the counter and the returned identifier
CreateRecord(recs, n, fs) ==
  [records |-> MapSet(recs, NewId(n), CsvRecordAdapter(NewId(n), fs)),
   next |-> n + 1,
   id |-> NewId(n)]

createRecordAsync(fs) ==
  /\ nCalls < MaxCalls
  /\ nCalls' = nCalls + 1
  /\ \E r \in {CreateRecord(records, nextRecordId, fs)} :
       /\ records' = r.records
       /\ nextRecordId' = r.next
       /\ csvFile' = saveToCsv(autoSave, r.records, fieldNames, csvFile)
       /\ lastOp' = [Call("create") EXCEPT !.fields = fs, !.ret = <<r.id>>,
                                           !.wrote = autoSave]
  /\ UNCHANGED <<fieldNames, fields, autoSave, loadedFile>>
  /\ UNCHANGED <<remoteVars, baseVars>>
  /\ held' = Track(held, records', FALSE)

\* updateRecordAsync(id, fs) without the save: the records and the error
UpdateRecord(recs, id, fs) ==
  IF ~MapHas(recs, id)
  THEN [records |-> recs, error |-> RecordNotFound(id)]
  ELSE [records |-> [recs EXCEPT ![MapIndex(recs, id)] =
                       updateFields(recs[MapIndex(recs, id)], fs)],
        error |-> NoError]

updateRecordAsync(id, fs) ==
  /\ nCalls < MaxCalls
  /\ nCalls' = nCalls + 1
  /\ \E r \in {UpdateRecord(records, id, fs)} :
       /\ records' = r.records
       /\ csvFile' = IF r.error = NoError
                     THEN saveToCsv(autoSave, r.records, fieldNames, csvFile)
                     ELSE csvFile
       /\ lastOp' = [Call("update") EXCEPT
                       !.id = id, !.fields = fs, !.error = r.error,
                       !.wrote = (autoSave /\ r.error = NoError)]
  /\ UNCHANGED <<fieldNames, fields, nextRecordId, autoSave, loadedFile>>
  /\ UNCHANGED <<remoteVars, baseVars>>
  /\ held' = Track(held, records', FALSE)

\* DeleteRecord without the check of records.has(id)
DeleteRecord_Unchecked(recs, id) ==
  [records |-> MapDelete(recs, id), error |-> NoError]

\* deleteRecordAsync(id) without the save: the records and the error
DeleteRecord(recs, id) ==
  IF ~MapHas(recs, id)
  THEN [records |-> recs, error |-> RecordNotFound(id)]
  ELSE [records |-> MapDelete(recs, id), error |-> NoError]

deleteRecordAsync(id) ==
  /\ nCalls < MaxCalls
  /\ nCalls' = nCalls + 1
  /\ \E r \in {DeleteRecord(records, id)} :
       /\ records' = r.records
       /\ csvFile' = IF r.error = NoError
                     THEN saveToCsv(autoSave, r.records, fieldNames, csvFile)
                     ELSE csvFile
       /\ lastOp' = [Call("delete") EXCEPT
                       !.id = id, !.error = r.error,
                       !.wrote = (autoSave /\ r.error = NoError)]
  /\ UNCHANGED <<fieldNames, fields, nextRecordId, autoSave, loadedFile>>
  /\ UNCHANGED <<remoteVars, baseVars>>
  /\ held' = Track(held, records', FALSE)

\* ------------------------------------------------------------------------
\* CsvTableAdapter.selectRecordsAsync
\* ------------------------------------------------------------------------
\* the order of localeCompare on the texts of the model: blanks and
\* punctuation before digits before lower-case letters, a prefix first
CollationChars == " ,0123456789abcdefghijklmnopqrstuvwxyz"

RECURSIVE localeCompare(_, _)
localeCompare(a, b) ==
  IF a = "" /\ b = "" THEN 0
  ELSE IF a = "" THEN -1
  ELSE IF b = "" THEN 1
  ELSE LET ra == IndexOf(CollationChars, Head(a))
           rb == IndexOf(CollationChars, Head(b))
       IN IF ra < rb THEN -1
          ELSE IF ra > rb THEN 1
          ELSE localeCompare(Tail(a), Tail(b))

\* String(rec.getCellValue(field) ?? "")
SortKey(rec, field) ==
  IF getCellValue(rec, field).t = "null" THEN ""
  ELSE JsString(getCellValue(rec, field))

\* the comparator of one sort
Compare(a, b, sort) ==
  LET comparison == localeCompare(SortKey(a, sort.field), SortKey(b, sort.field))
  IN IF sort.direction = "desc" THEN 0 - comparison ELSE comparison

\* Array.prototype.sort, which is stable: x goes after the last element
\* that does not compare greater than it
RECURSIVE InsertStable(_, _, _)
InsertStable(sorted, x, sort) ==
  IF sorted = <<>> THEN <<x>>
  ELSE IF Compare(sorted[Len(sorted)], x, sort) <= 0 THEN Append(sorted, x)
  ELSE Append(InsertStable(SubSeq(sorted, 1, Len(sorted) - 1), x, sort),
              sorted[Len(sorted)])

RECURSIVE StableSort(_, _)
StableSort(recs, sort) ==
  IF recs = <<>> THEN <<>>
  ELSE InsertStable(StableSort(SubSeq(recs, 1, Len(recs) - 1), sort),
                    recs[Len(recs)], sort)

\* the sorts applied in the declared order, the first one first
RECURSIVE ApplySorts_DeclaredOrder(_, _)
ApplySorts_DeclaredOrder(recs, sorts) ==
  IF sorts = <<>> THEN recs
  ELSE ApplySorts_DeclaredOrder(StableSort(recs, sorts[1]), Tail(sorts))

\* for (const sort of [...options.sorts].reverse()) records.sort(...)
RECURSIVE ApplySorts(_, _)
ApplySorts(recs, sorts) ==
  IF sorts = <<>> THEN recs
  ELSE ApplySorts(StableSort(recs, sorts[Len(sorts)]),
                  SubSeq(sorts, 1, Len(sorts) - 1))

\* the records looked up one by one in the order of recordIds
RECURSIVE FilterByIds_InArgumentOrder(_, _)
FilterByIds_InArgumentOrder(recs, ids) ==
  IF ids = <<>> THEN <<>>
  ELSE (IF MapHas(recs, Head(ids)) THEN <<MapGet(recs, Head(ids))>> ELSE <<>>)
       \o FilterByIds_InArgumentOrder(recs, Tail(ids))

\* records.filter(r => idSet.has(r.id))
FilterByIds(recs, ids) ==
  LET Wanted(r) == r.id \in SeqToSet(ids)
  IN SelectSeq(recs, Wanted)

\* the records of the query result of selectRecordsAsync(options)
SelectResult(recs, options) ==
  ApplySorts(IF options.hasIds THEN FilterByIds(recs, options.recordIds)
             ELSE recs,
             options.sorts)

\* what getRecord returns for undefined; no record has an empty identifier
NoRecord == [id |-> "", fields |-> EmptyFields, name |-> Undefined]

\* CsvQueryResultAdapter.getRecord: the last record of the result with the
\* identifier
getRecord(result, id) ==
  IF \E i \in 1..Len(result) : result[i].id = id
  THEN result[CHOOSE i \in 1..Len(result) :
                /\ result[i].id = id
                /\ \A j \in (i + 1)..Len(result) : result[j].id # id]
  ELSE NoRecord

selectRecordsAsync(options) ==
  /\ nCalls < MaxCalls
  /\ nCalls' = nCalls + 1
  /\ lastOp' = [Call("select") EXCEPT !.options = options,
                                      !.result = SelectResult(records, options)]
  /\ UNCHANGED <<records, fieldNames, fields, nextRecordId, autoSave, csvFile,
                 loadedFile>>
  /\ UNCHANGED <<remoteVars, baseVars>>
  /\ held' = Hold(SelectResult(records, options))

\* ------------------------------------------------------------------------
\* CsvTableAdapter: batched operations
\* ------------------------------------------------------------------------
\* UpdateLoop that catches the error of an entry and goes on with the next
RECURSIVE UpdateLoop_SkipFailed(_, _, _)
UpdateLoop_SkipFailed(recs, batch, i) ==
  IF i > Len(batch) THEN [records |-> recs, done |-> i - 1, error |-> NoError]
  ELSE LET r == UpdateRecord(recs, batch[i].id, batch[i].fields)
           rest == UpdateLoop_SkipFailed(r.records, batch, i + 1)
       IN IF r.error # NoError
          THEN [records |-> rest.records, done |-> i - 1, error |-> r.error]
          ELSE rest

\* The loop of updateRecordsAsync from entry i on: the records, the number of
\* entries gone through and the error that ended the loop
RECURSIVE UpdateLoop(_, _, _)
UpdateLoop(recs, batch, i) ==
  IF i > Len(batch) THEN [records |-> recs, done |-> i - 1, error |-> NoError]
  ELSE LET r == UpdateRecord(recs, batch[i].id, batch[i].fields)
       IN IF r.error # NoError
          THEN [records |-> r.records, done |-> i - 1, error |-> r.error]
          ELSE UpdateLoop(r.records, batch, i + 1)

updateRecordsAsync(batch) ==
  /\ nCalls < MaxCalls
  /\ nCalls' = nCalls + 1
  /\ \E r \in {UpdateLoop(records, batch, 1)} :
       /\ records' = r.records
       /\ csvFile' = IF r.done > 0
                     THEN saveToCsv(autoSave, r.records, fieldNames, csvFile)
                     ELSE csvFile
       /\ lastOp' = [Call("updateRecords") EXCEPT
                       !.batch = batch, !.error = r.error, !.done = r.done,
                       !.wrote = (autoSave /\ r.done > 0)]
  /\ UNCHANGED <<fieldNames, fields, nextRecordId, autoSave, loadedFile>>
  /\ UNCHANGED <<remoteVars, baseVars>>
  /\ held' = Track(held, records', FALSE)

\* DeleteLoop that catches the error of an entry and goes on with the next
RECURSIVE DeleteLoop_SkipFailed(_, _, _)
DeleteLoop_SkipFailed(recs, batch, i) ==
  IF i > Len(batch) THEN [records |-> recs, done |-> i - 1, error |-> NoError]
  ELSE LET r == DeleteRecord(recs, batch[i].id)
           rest == DeleteLoop_SkipFailed(r.records, batch, i + 1)
       IN IF r.error # NoError
          THEN [records |-> rest.records, done |-> i - 1, error |-> r.error]
          ELSE rest

\* The loop of deleteRecordsAsync from entry i on
RECURSIVE DeleteLoop(_, _, _)
DeleteLoop(recs, batch, i) ==
  IF i > Len(batch) THEN [records |-> recs, done |-> i - 1, error |-> NoError]
  ELSE LET r == DeleteRecord(recs, batch[i].id)
       IN IF r.error # NoError
          THEN [records |-> r.records, done |-> i - 1, error |-> r.error]
          ELSE DeleteLoop(r.records, batch, i + 1)

deleteRecordsAsync(batch) ==
  /\ nCalls < MaxCalls
  /\ nCalls' = nCalls + 1
  /\ \E r \in {DeleteLoop(records, batch, 1)} :
       /\ records' = r.records
       /\ csvFile' = IF r.done > 0
                     THEN saveToCsv(autoSave, r.records, fieldNames, csvFile)
                     ELSE csvFile
       /\ lastOp' = [Call("deleteRecords") EXCEPT
                       !.batch = batch, !.error = r.error, !.done = r.done,
                       !.wrote = (autoSave /\ r.done > 0)]
  /\ UNCHANGED <<fieldNames, fields, nextRecordId, autoSave, loadedFile>>
  /\ UNCHANGED <<remoteVars, baseVars>>
  /\ held' = Track(held, records', FALSE)

\* The loop of createRecordsAsync from entry i on: the records, the counter
\* and the identifiers pushed to the returned list
RECURSIVE CreateLoop(_, _, _, _, _)
CreateLoop(recs, n, batch, i, ids) ==
  IF i > Len(batch) THEN [records |-> recs, next |-> n, ids |-> ids]
  ELSE LET r == CreateRecord(recs, n, batch[i].fields)
       IN CreateLoop(r.records, r.next, batch, i + 1, Append(ids, r.id))

createRecordsAsync(batch) ==
  /\ nCalls < MaxCalls
  /\ nCalls' = nCalls + 1
  /\ \E r \in {CreateLoop(records, nextRecordId, batch, 1, <<>>)} :
       /\ records' = r.records
       /\ nextRecordId' = r.next
       /\ csvFile' = IF Len(batch) > 0
                     THEN saveToCsv(autoSave, r.records, fieldNames, csvFile)
                     ELSE csvFile
       /\ lastOp' = [Call("createRecords") EXCEPT
                       !.batch = batch, !.ret = r.ids, !.done = Len(batch),
                       !.wrote = (autoSave /\ Len(batch) > 0)]
  /\ UNCHANGED <<fieldNames, fields, autoSave, loadedFile>>
  /\ UNCHANGED <<remoteVars, baseVars>>
  /\ held' = Track(held, records', FALSE)

\* a batch entry; a delete entry has no fields, a create entry no identifier
Entry(id, fs) == [id |-> id, fields |-> fs]

BatchesOf(entries, maxLen) == UNION {[1..n -> entries] : n \in 0..maxLen}

\* ------------------------------------------------------------------------
\* getField
\* ------------------------------------------------------------------------
\* new Error(`Field "${nameOrId}" not found in table "${name}"`)
FieldNotFound(nameOrId) ==
  [kind |-> "field-not-found", class |-> "Error", id |-> nameOrId]

\* getField that looks for the name only
GetField_ByName(flds, nameOrId) ==
  IF \E i \in 1..Len(flds) : flds[i].name = nameOrId
  THEN [ret |-> <<flds[Min({i \in 1..Len(flds) : flds[i].name = nameOrId})]>>,
        error |-> NoError]
  ELSE [ret |-> <<>>, error |-> FieldNotFound(nameOrId)]

\* CsvTableAdapter.getField: fields.find(...), or the error
GetField(flds, nameOrId) ==
  LET found == {i \in 1..Len(flds) :
                  flds[i].name = nameOrId \/ flds[i].id = nameOrId}
  IN  IF found = {}
      THEN [ret |-> <<>>, error |-> FieldNotFound(nameOrId)]
      ELSE [ret |-> <<flds[Min(found)]>>, error |-> NoError]

getField(nameOrId) ==
  /\ nCalls < MaxCalls
  /\ nCalls' = nCalls + 1
  /\ \E r \in {GetField(fields, nameOrId)} :
       lastOp' = [Call("getField") EXCEPT
                    !.id = nameOrId, !.ret = r.ret, !.error = r.error]
  /\ UNCHANGED <<csvVars, remoteVars, baseVars>>

\* AirtableTableAdapter.getField
AirtableGetField(nameOrId) ==
  /\ nCalls < MaxCalls
  /\ nCalls' = nCalls + 1
  /\ lastOp' = [Call("remoteGetField") EXCEPT
                  !.id = nameOrId,
                  !.ret = <<[id |-> nameOrId, name |-> nameOrId,
                             type |-> "unknown"]>>]
  /\ UNCHANGED <<csvVars, remoteVars, baseVars>>

\* ------------------------------------------------------------------------
\* AirtableTableAdapter: updates of the remote table
\* ------------------------------------------------------------------------
\* the error with which the service rejects a request
RemoteRejected(id) ==
  [kind |-> "remote-rejected", class |-> "AirtableError", id |-> id]

\* the service after it has applied the entries 1..n of a request: an update
\* merges the fields of the entry into the record
RECURSIVE ServiceApply(_, _, _)
ServiceApply(store, entries, n) ==
  IF n = 0 THEN store
  ELSE LET s == ServiceApply(store, entries, n - 1)
           e == entries[n]
       IN MapSet(s, e.id,
                 [id |-> e.id, fields |-> Assign(MapGet(s, e.id).fields, e.fields)])

\* the entries of a request that the service rejects: no record has the
\* identifier
Rejected(store, entries) ==
  {j \in 1..Len(entries) : ~MapHas(store, entries[j].id)}

\* this.table.update(...): a request with a rejected entry fails as a whole;
\* the service has then applied nothing of it, or (partial) the entries
\* before the rejected one
ServiceUpdate(store, entries, partial) ==
  LET bad == Rejected(store, entries)
  IN IF bad = {}
     THEN [store |-> ServiceApply(store, entries, Len(entries)),
           error |-> NoError]
     ELSE [store |-> IF partial
                     THEN ServiceApply(store, entries, Min(bad) - 1)
                     ELSE store,
           error |-> RemoteRejected(entries[Min(bad)].id)]

AirtableUpdateRecordAsync(id, fs) ==
  /\ nCalls < MaxCalls
  /\ nCalls' = nCalls + 1
  /\ \E r \in {ServiceUpdate(remoteRecords, <<Entry(id, fs)>>, FALSE)} :
       /\ remoteRecords' = r.store
       /\ requests' = <<(<<Entry(id, fs)>>)>>
       /\ lastOp' = [Call("remoteUpdate") EXCEPT
                       !.id = id, !.fields = fs, !.error = r.error]
  /\ UNCHANGED <<csvVars, baseVars>>

batchSize == 10

\* records.slice(i, i + batchSize)
Slice(seq, i, size) ==
  SubSeq(seq, i + 1, IF i + size < Len(seq) THEN i + size ELSE Len(seq))

\* a loop that sends every entry in a request of its own
RECURSIVE AirtableUpdateLoop_EntryByEntry(_, _, _, _, _)
AirtableUpdateLoop_EntryByEntry(store, batch, i, sent, partial) ==
  IF i >= Len(batch)
  THEN [store |-> store, requests |-> sent, error |-> NoError]
  ELSE LET chunk == Slice(batch, i, 1)
           r == ServiceUpdate(store, chunk, partial)
       IN IF r.error # NoError
          THEN [store |-> r.store, requests |-> Append(sent, chunk),
                error |-> r.error]
          ELSE AirtableUpdateLoop_EntryByEntry(r.store, batch, i + 1,
                                               Append(sent, chunk), partial)

\* the loop of updateRecordsAsync from offset i on: the service's records,
\* the requests sent and the error that ended the loop
RECURSIVE AirtableUpdateLoop(_, _, _, _, _)
AirtableUpdateLoop(store, batch, i, sent, partial) ==
  IF i >= Len(batch)
  THEN [store |-> store, requests |-> sent, error |-> NoError]
  ELSE LET chunk == Slice(batch, i, batchSize)
           r == ServiceUpdate(store, chunk, partial)
       IN IF r.error # NoError
          THEN [store |-> r.store, requests |-> Append(sent, chunk),
                error |-> r.error]
          ELSE AirtableUpdateLoop(r.store, batch, i + batchSize,
                                  Append(sent, chunk), partial)

AirtableUpdateRecordsAsync(batch, partial) ==
  /\ nCalls < MaxCalls
  /\ nCalls' = nCalls + 1
  /\ \E r \in {AirtableUpdateLoop(remoteRecords, batch, 0, <<>>, partial)} :
       /\ remoteRecords' = r.store
       /\ requests' = r.requests
       /\ lastOp' = [Call("remoteUpdateRecords") EXCEPT
                       !.batch = batch, !.error = r.error]
  /\ UNCHANGED <<csvVars, baseVars>>

\* this.table.create(...): the service stores a record for every entry and
\* answers with the records in the order of the entries, or (fail) rejects
\* the request as a whole; it names a new record after the number of records
\* that it holds, which is new as long as no record was destroyed
ServiceCreate(store, entries, fail) ==
  IF fail
  THEN [store |-> store, created |-> <<>>, error |-> RemoteRejected("")]
  ELSE LET made == [j \in 1..Len(entries) |->
                      [id |-> "rec" \o NatToStr(Len(store) + j),
                       fields |-> entries[j].fields]]
       IN  [store |-> store \o made, created |-> made, error |-> NoError]

\* this.table.destroy(...): a request with an unknown identifier fails as a
\* whole
ServiceDestroy(store, entries) ==
  LET bad == Rejected(store, entries)
  IN IF bad = {}
     THEN [store |-> SelectSeq(store, LAMBDA rec :
                       \A j \in 1..Len(entries) : entries[j].id # rec.id),
           error |-> NoError]
     ELSE [store |-> store, error |-> RemoteRejected(entries[Min(bad)].id)]

\* the loop of createRecordsAsync from offset i on; the service rejects
\* request number failAt
RECURSIVE AirtableCreateLoop(_, _, _, _, _, _)
AirtableCreateLoop(store, batch, i, sent, createdIds, failAt) ==
  IF i >= Len(batch)
  THEN [store |-> store, requests |-> sent, ret |-> createdIds,
        error |-> NoError]
  ELSE LET chunk == Slice(batch, i, batchSize)
           r == ServiceCreate(store, chunk, failAt = Len(sent) + 1)
       IN IF r.error # NoError
          THEN [store |-> r.store, requests |-> Append(sent, chunk),
                ret |-> <<>>, error |-> r.error]
          ELSE AirtableCreateLoop(
                 r.store, batch, i + batchSize, Append(sent, chunk),
                 createdIds \o [j \in 1..Len(r.created) |-> r.created[j].id],
                 failAt)

AirtableCreateRecordsAsync(batch, failAt) ==
  /\ nCalls < MaxCalls
  /\ nCalls' = nCalls + 1
  /\ \E r \in {AirtableCreateLoop(remoteRecords, batch, 0, <<>>, <<>>, failAt)} :
       /\ remoteRecords' = r.store
       /\ requests' = r.requests
       /\ lastOp' = [Call("remoteCreateRecords") EXCEPT
                       !.batch = batch, !.ret = r.ret, !.error = r.error]
  /\ UNCHANGED <<csvVars, baseVars>>

\* a loop that sends all identifiers in one request
AirtableDeleteLoop_OneRequest(store, batch, i, sent) ==
  IF Len(batch) = 0
  THEN [store |-> store, requests |-> sent, error |-> NoError]
  ELSE LET r == ServiceDestroy(store, batch)
       IN  [store |-> r.store, requests |-> Append(sent, batch),
            error |-> r.error]

\* the loop of deleteRecordsAsync from offset i on
RECURSIVE AirtableDeleteLoop(_, _, _, _)
AirtableDeleteLoop(store, batch, i, sent) ==
  IF i >= Len(batch)
  THEN [store |-> store, requests |-> sent, error |-> NoError]
  ELSE LET chunk == Slice(batch, i, batchSize)
           r == ServiceDestroy(store, chunk)
       IN IF r.error # NoError
          THEN [store |-> r.store, requests |-> Append(sent, chunk),
                error |-> r.error]
          ELSE AirtableDeleteLoop(r.store, batch, i + batchSize,
                                  Append(sent, chunk))

AirtableDeleteRecordsAsync(batch) ==
  /\ nCalls < MaxCalls
  /\ nCalls' = nCalls + 1
  /\ \E r \in {AirtableDeleteLoop(remoteRecords, batch, 0, <<>>)} :
       /\ remoteRecords' = r.store
       /\ requests' = r.requests
       /\ lastOp' = [Call("remoteDeleteRecords") EXCEPT
                       !.batch = batch, !.error = r.error]
  /\ UNCHANGED <<csvVars, baseVars>>

\* awaiting updateRecordAsync(entry.id, entry.fields) for each entry of a
\* batch in input order, from entry i on
RECURSIVE SequentialUpdates(_, _, _, _)
SequentialUpdates(store, batch, i, sent) ==
  IF i > Len(batch)
  THEN [store |-> store, requests |-> sent, error |-> NoError]
  ELSE LET r == ServiceUpdate(store, <<batch[i]>>, FALSE)
       IN IF r.error # NoError
          THEN [store |-> r.store, requests |-> Append(sent, <<batch[i]>>),
                error |-> r.error]
          ELSE SequentialUpdates(r.store, batch, i + 1,
                                 Append(sent, <<batch[i]>>))

\* ------------------------------------------------------------------------
\* The file-backed table under single and batched calls
\* ------------------------------------------------------------------------
FieldsA == [Name |-> Str("z"), Flag |-> Bool(TRUE)]

\* the batches of the main specification: entries on the first record of
\* the table and on an unknown identifier
FirstIds == IF records = <<>> THEN {} ELSE {records[1].id}
MainBatches ==
  BatchesOf({Entry(id, FieldsA) : id \in FirstIds \cup UnknownIds}, MainBatchLen)
MainDeleteBatches ==
  BatchesOf({Entry(id, EmptyFields) : id \in FirstIds \cup UnknownIds}, MainBatchLen)
MainCreateBatches == BatchesOf({Entry("", FieldsA)}, MainBatchLen)

Next ==
  \/ \E fs \in InputFieldSets : createRecordAsync(fs)
  \/ \E id \in IdArgs, fs \in InputFieldSets : updateRecordAsync(id, fs)
  \/ \E id \in IdArgs : deleteRecordAsync(id)
  \/ selectRecordsAsync(NoOptions)
  \/ \E batch \in MainBatches : updateRecordsAsync(batch)
  \/ \E batch \in MainDeleteBatches : deleteRecordsAsync(batch)
  \/ \E batch \in MainCreateBatches : createRecordsAsync(batch)
  \/ Reopen

Spec == Init /\ [][Next]_vars

\* ------------------------------------------------------------------------
\* One batched call on a table that no call has changed yet, and
\* selectRecordsAsync after it
\* ------------------------------------------------------------------------
FieldsC == [Name |-> Null, Flag |-> Undefined]

Unchanged == lastOp.op = "construct"

\* entries on the first two records of the table and on an unknown identifier
BatchIds ==
  {records[i].id : i \in {j \in 1..2 : j <= Len(records)}} \cup UnknownIds
UpdateBatches ==
  BatchesOf({Entry(id, FieldsA) : id \in BatchIds}
              \cup {Entry(id, FieldsC) : id \in FirstIds},
            MaxBatchLen)
DeleteBatches == BatchesOf({Entry(id, EmptyFields) : id \in BatchIds}, MaxBatchLen)
CreateBatches ==
  BatchesOf({Entry("", fs) : fs \in {FieldsA, FieldsC}}, MaxBatchLen)

NextBatch ==
  \/ Unchanged /\ \E batch \in UpdateBatches : updateRecordsAsync(batch)
  \/ Unchanged /\ \E batch \in DeleteBatches : deleteRecordsAsync(batch)
  \/ Unchanged /\ \E batch \in CreateBatches : createRecordsAsync(batch)
  \/ lastOp.op \in BatchOps /\ selectRecordsAsync(NoOptions)

SpecBatch == Init /\ [][NextBatch]_vars

\* ------------------------------------------------------------------------
\* The remote table under single and batched updates
\* ------------------------------------------------------------------------
\* entry j of a remote batch writes j to one of the two records
GoodEntry(j) ==
  Entry(IF j % 2 = 1 THEN "recA" ELSE "recB", [Count |-> Num(j)])

\* the batches of up to MaxRemoteLen entries of which at most two name a
\* record that the service does not hold
RemoteBatches ==
  UNION {{[j \in 1..n |-> IF j \in B THEN Entry("rec999", [Count |-> Num(j)])
                          ELSE GoodEntry(j)] :
            B \in {X \in SUBSET (1..n) : Cardinality(X) <= 2}} :
         n \in 0..MaxRemoteLen}

InitRemote ==
  /\ \E t \in {loadFromCsv(NoFile)} :
       /\ records = t.records
       /\ fieldNames = t.fieldNames
       /\ fields = t.fields
       /\ nextRecordId = t.nextRecordId
  /\ autoSave = FALSE
  /\ csvFile = NoFile
  /\ loadedFile = NoFile
  /\ held = NoResult
  /\ remoteRecords = RemoteStore
  /\ requests = <<>>
  /\ NoBase
  /\ nCalls = 0
  /\ lastOp = FirstCall("construct")

\* one batched update, before or after single updates
NextRemote ==
  \/ \E id \in {"recA", "rec999"} :
       AirtableUpdateRecordAsync(id, [Name |-> Str("z")])
  \/ /\ lastOp.op # "remoteUpdateRecords"
     /\ \E batch \in RemoteBatches, partial \in BOOLEAN :
          AirtableUpdateRecordsAsync(batch, partial)

SpecRemote == InitRemote /\ [][NextRemote]_vars

\* ------------------------------------------------------------------------
\* The bases under getTable, addTable and loadAllTables
\* ------------------------------------------------------------------------
\* the csv files of the data directory, by the names of their tables
CsvDirectories == {<<>>, <<"A">>, <<"A", "B">>, <<"B", "A">>}

\* the tables that a MockBase is constructed with
MockTableLists ==
  {<<>>,
   <<Table("tblA", "A", 1)>>,
   <<Table("tblA", "A", 1), Table("tblB", "B", 2)>>}

\* the tables that are added to a MockBase
MockNewTables == {[id |-> "tblC", name |-> "C"], [id |-> "B", name |-> "B"]}

\* the arguments of getTable
TableArgs == {"A", "B", "C", "tblA"}

\* the names that an AirtableBaseAdapter is constructed with
DeclaredNames == {<<>>, <<"A">>, <<"A", "B">>, <<"A", "A">>}

\* the answers of the metadata endpoint
MetadataResponses ==
  {MetadataOk(names) : names \in {<<>>, <<"A">>, <<"B", "A">>, <<"C", "B">>}}
    \cup {MetadataStatus(status) : status \in {403, 500}}
    \cup {MetadataUnreachable}

\* a base of the given kind has been constructed; no table is in use
InitBaseOver(kind, b) ==
  /\ \E t \in {loadFromCsv(NoFile)} :
       /\ records = t.records
       /\ fieldNames = t.fieldNames
       /\ fields = t.fields
       /\ nextRecordId = t.nextRecordId
  /\ autoSave = FALSE
  /\ csvFile = NoFile
  /\ loadedFile = NoFile
  /\ held = NoResult
  /\ remoteRecords = RemoteStore
  /\ requests = <<>>
  /\ baseKind = kind
  /\ tables = b.tables
  /\ tableMap = b.tableMap
  /\ nextObject = b.nextObject
  /\ returned = {}
  /\ knownNames = {b.tables[i].name : i \in 1..Len(b.tables)}
  /\ lastBaseOp = NoBaseCall
  /\ nCalls = 0
  /\ lastOp = FirstCall("construct")

InitLocalBase ==
  \/ \E csvFiles \in CsvDirectories :
       InitBaseOver("csv", CsvBaseAdapter(csvFiles))
  \/ \E ts \in MockTableLists : InitBaseOver("mock", MockBase(ts))

NextLocalBase ==
  \/ \E nameOrId \in TableArgs : CsvGetTable(nameOrId)
  \/ \E nameOrId \in TableArgs : MockGetTable(nameOrId)
  \/ \E t \in MockNewTables : MockAddTable(t.id, t.name)

SpecLocalBase == InitLocalBase /\ [][NextLocalBase]_vars

InitRemoteBase ==
  \E tableNames \in DeclaredNames :
    InitBaseOver("airtable", AirtableBaseAdapter(tableNames))

NextRemoteBase ==
  \/ \E nameOrId \in TableArgs \ {"tblA"} : AirtableGetTable(nameOrId)
  \/ \E tableName \in {"A", "B"} : AirtableAddTable(tableName)
  \/ \E response \in MetadataResponses : loadAllTables(response)

SpecRemoteBase == InitRemoteBase /\ [][NextRemoteBase]_vars

\* ------------------------------------------------------------------------
\* Tables loaded from files, under one getField or updateRecordAsync call
\* ------------------------------------------------------------------------
RowN(i, a) == [id |-> i, Name |-> a]

\* the cell texts of the loaded files
CellTexts == {"", "tRuE", "FALSE", "007", "[1, 2]", "[1, 2", "{}", "abc"}

\* rows with and without an identifier
IdRows == {RowN(i, a) : i \in {"", "rec1", "rec2"}, a \in {"a", "42"}}

\* files of up to MaxRows rows
RowsOf(rows) == UNION {[1..n -> rows] : n \in 0..MaxRows}

LoadFiles ==
  InitFiles
    \cup {[exists |-> TRUE, header |-> <<"id", "Name">>, rows |-> rows] :
            rows \in RowsOf(IdRows)}
    \cup {[exists |-> TRUE, header |-> <<"Name">>, rows |-> rows] :
            rows \in RowsOf({Row1(a) : a \in CellTexts})}

FieldArgs == {"Name", "id", "fld0", "fld1", "Missing"}

FieldsT == [Name |-> Str("42"), Flag |-> Str("true")]

InitLoad == InitOver(LoadFiles)

NextLoad ==
  \/ Unchanged /\ \E nameOrId \in FieldArgs : getField(nameOrId)
  \/ Unchanged /\ \E nameOrId \in FieldArgs : AirtableGetField(nameOrId)
  \/ Unchanged /\ \E id \in FirstIds : updateRecordAsync(id, FieldsT)

SpecLoad == InitLoad /\ [][NextLoad]_vars

\* ------------------------------------------------------------------------
\* The remote table under batched creates, updates and deletes
\* ------------------------------------------------------------------------
\* entry j of a create batch
NewEntry(j) == Entry("", [Count |-> Num(j)])

\* the identifiers of the records of the service, in their order, with or
\* without an unknown identifier at some place
RemoteDeleteBatches ==
  LET ids == [i \in 1..Len(remoteRecords) |->
                Entry(remoteRecords[i].id, EmptyFields)]
  IN  {ids} \cup {SubSeq(ids, 1, p) \o <<Entry("rec999", EmptyFields)>>
                    \o SubSeq(ids, p + 1, Len(ids)) : p \in 0..Len(ids)}

\* a batched create or update on the new table, and a batched delete after it
NextRemoteBatch ==
  \/ /\ Unchanged
     /\ \E n \in 0..MaxRemoteLen, failAt \in 0..2 :
          AirtableCreateRecordsAsync([j \in 1..n |-> NewEntry(j)], failAt)
  \/ /\ Unchanged
     /\ \E n \in 0..MaxRemoteLen :
          AirtableUpdateRecordsAsync([j \in 1..n |-> GoodEntry(j)], FALSE)
  \/ /\ lastOp.op \in {"construct", "remoteCreateRecords"}
     /\ \E batch \in RemoteDeleteBatches : AirtableDeleteRecordsAsync(batch)

SpecRemoteBatch == InitRemote /\ [][NextRemoteBatch]_vars

\* ------------------------------------------------------------------------
\* selectRecordsAsync with recordIds and sorts, on tables whose records tie
\* on the sort fields
\* ------------------------------------------------------------------------
SelectFiles ==
  { [exists |-> TRUE, header |-> <<"id", "Name", "Flag">>,
     rows |-> <<Row3("rec001", "b", "x"), Row3("rec002", "a", "x"),
                Row3("rec003", "b", "y"), Row3("rec004", "a", "x")>>],
    [exists |-> TRUE, header |-> <<"Name", "Flag">>,
     rows |-> <<Row2("", "10"), Row2("b", "9"), Row2("", "9")>>] }

FieldsS == [Name |-> Str("a"), Flag |-> Str("y")]

SortSpecs ==
  {[field |-> f, direction |-> d] : f \in {"Name", "Flag"}, d \in {"asc", "desc"}}

\* recordIds in an order that is not the table's, with an identifier twice
\* and with an identifier that no record has
IdLists ==
  {<<>>, <<"rec999">>}
    \cup (IF records = <<>> THEN {}
          ELSE LET first == records[1].id
                   last == records[Len(records)].id
               IN {<<last, first>>, <<first, "rec999", first>>})

SelectOptions ==
  {[hasIds |-> FALSE, recordIds |-> <<>>, sorts |-> ss] :
     ss \in BatchesOf(SortSpecs, MaxSorts)}
    \cup {[hasIds |-> TRUE, recordIds |-> ids, sorts |-> ss] :
            ids \in IdLists, ss \in BatchesOf(SortSpecs, MaxSorts)}

\* a query follows the construction or a mutation
NextSelect ==
  \/ lastOp.op # "select" /\ \E options \in SelectOptions : selectRecordsAsync(options)
  \/ createRecordAsync(FieldsS)
  \/ \E id \in FirstIds : deleteRecordAsync(id)

SpecSelect == InitOver(SelectFiles) /\ [][NextSelect]_vars

\* ------------------------------------------------------------------------
\* Properties
\* ------------------------------------------------------------------------
Succeeded == lastOp.error = NoError

\* C1: the identifier that createRecordAsync returned, passed to
\* updateRecordAsync or deleteRecordAsync by the very next call on the
\* table, is found: that call ends without a not-found error.
C1_IdentifierStability ==
  (/\ lastOp.op \in {"update", "delete"}
   /\ lastOp.justCreated # ""
   /\ lastOp.id = lastOp.justCreated) => Succeeded

C1_Witness ==
  /\ lastOp.op = "update"
  /\ lastOp.justCreated # ""
  /\ lastOp.id = lastOp.justCreated
  /\ Succeeded
  /\ Len(records) >= 2

\* C2: updateRecordAsync and deleteRecordAsync on an identifier that no
\* record of the table has end with the not-found error of that identifier
\* and change nothing: the records (number, identifiers, fields, order), the
\* counter and the file are as before, and the file was not written.
C2_NotFoundLeavesTable ==
  [][(/\ lastOp'.op \in {"update", "delete"}
      /\ nCalls' = nCalls + 1
      /\ ~MapHas(records, lastOp'.id))
     => (/\ lastOp'.error = RecordNotFound(lastOp'.id)
         /\ records' = records
         /\ nextRecordId' = nextRecordId
         /\ fieldNames' = fieldNames
         /\ csvFile' = csvFile
         /\ ~lastOp'.wrote)]_vars

C2_Witness ==
  /\ lastOp.op = "delete"
  /\ lastOp.error = RecordNotFound("rec999")
  /\ autoSave
  /\ Len(records) >= 2

\* the record r after the entries 1..n of an update batch: a field holds the
\* value of the last entry for r that names it, the name that of the last
\* such entry that gives "Name" a value
AfterEntries(r, batch, n) ==
  LET hits == {j \in 1..n : batch[j].id = r.id}
      Writers(f) == {j \in hits : f \in DOMAIN batch[j].fields}
      namers == {j \in Writers("Name") : batch[j].fields["Name"].t # "undefined"}
  IN [id |-> r.id,
      fields |-> [f \in DOMAIN r.fields
                        \cup UNION {DOMAIN batch[j].fields : j \in hits} |->
                   IF Writers(f) = {} THEN r.fields[f]
                   ELSE batch[Max(Writers(f))].fields[f]],
      name |-> IF namers = {} THEN r.name
               ELSE batch[Max(namers)].fields["Name"]]

\* the entries of an update batch that target no record of the table
BadUpdates(recs, batch) == {j \in 1..Len(batch) : ~MapHas(recs, batch[j].id)}

\* the entries of a delete batch that target no record of the table or a
\* record that an earlier entry of the batch has deleted
BadDeletes(recs, batch) ==
  {j \in 1..Len(batch) :
     \/ ~MapHas(recs, batch[j].id)
     \/ \E i \in 1..(j - 1) : batch[i].id = batch[j].id}

\* C3: a batched update or delete whose entry k is the first that targets a
\* nonexistent identifier (for a delete also one that an earlier entry of
\* the batch deleted) leaves exactly the entries 1..k-1 applied, in order,
\* nothing of the entries k..n, and rejects with the not-found error of
\* entry k.
C3_BatchAbortsAtFirstFailure ==
  [][/\ (/\ lastOp'.op = "updateRecords"
         /\ nCalls' = nCalls + 1
         /\ BadUpdates(records, lastOp'.batch) # {})
        => LET b == lastOp'.batch
               k == Min(BadUpdates(records, b))
           IN /\ lastOp'.error = RecordNotFound(b[k].id)
              /\ lastOp'.done = k - 1
              /\ records' = [p \in 1..Len(records) |->
                               AfterEntries(records[p], b, k - 1)]
              /\ lastOp'.wrote = (autoSave /\ k > 1)
     /\ (/\ lastOp'.op = "deleteRecords"
         /\ nCalls' = nCalls + 1
         /\ BadDeletes(records, lastOp'.batch) # {})
        => LET b == lastOp'.batch
               k == Min(BadDeletes(records, b))
               Kept(r) == r.id \notin {b[i].id : i \in 1..(k - 1)}
           IN /\ lastOp'.error = RecordNotFound(b[k].id)
              /\ lastOp'.done = k - 1
              /\ records' = SelectSeq(records, Kept)
              /\ lastOp'.wrote = (autoSave /\ k > 1)]_vars

\* the second of three entries fails after the first has changed a record
C3_Witness ==
  /\ lastOp.op = "updateRecords"
  /\ Len(lastOp.batch) = 3
  /\ lastOp.done = 1
  /\ lastOp.error = RecordNotFound("rec999")
  /\ MapHas(records, lastOp.batch[3].id)
  /\ lastOp.batch[3].fields # lastOp.batch[1].fields
  /\ records # loadFromCsv(loadedFile).records

\* the position of a record in the table
TablePos(r) == MapIndex(records, r.id)

\* out holds exactly the records of in, each once
IsPermutation(out, in) ==
  /\ Len(out) = Len(in)
  /\ \A i \in 1..Len(in) :
       \E j \in 1..Len(out) :
         /\ out[j] = in[i]
         /\ \A k \in 1..Len(out) : out[k] = in[i] => k = j

\* a sorts before b by the keys: the first key on which they differ puts a
\* first; records equal on every key are in table order
Before(a, b, sorts) ==
  LET differ == {m \in 1..Len(sorts) : Compare(a, b, sorts[m]) # 0}
  IN IF differ = {} THEN TablePos(a) < TablePos(b)
     ELSE Compare(a, b, sorts[Min(differ)]) < 0

\* the records of in sorted stably by one key: a record stands after the
\* records that compare less and the equal ones that precede it in in
SortedStably(in, sort) ==
  LET Rank(i) ==
        1 + Cardinality({j \in 1..Len(in) :
                           \/ Compare(in[j], in[i], sort) < 0
                           \/ Compare(in[j], in[i], sort) = 0 /\ j < i})
  IN [k \in 1..Len(in) |-> in[CHOOSE i \in 1..Len(in) : Rank(i) = k]]

\* the records that recordIds select, in declarative form
IsSelected(r, options) ==
  ~options.hasIds
    \/ \E k \in 1..Len(options.recordIds) : options.recordIds[k] = r.id

SelectedRecords(options) ==
  LET Sel(r) == IsSelected(r, options) IN SelectSeq(records, Sel)

\* C9: selectRecordsAsync with sorts [k1..kn] returns a permutation of the
\* selected records ordered by k1 in its direction, ties on k1 by k2, and so
\* on, records equal on every key in table order; with two keys the result
\* is the selected records sorted by the second key and then stably by the
\* first.
C9_SortsFirstKeyDominates ==
  (lastOp.op = "select" /\ lastOp.options.sorts # <<>>)
    => LET res == lastOp.result
           sorts == lastOp.options.sorts
           sel == SelectedRecords(lastOp.options)
       IN /\ IsPermutation(res, sel)
          /\ \A i, j \in 1..Len(res) :
               i < j => Before(res[i], res[j], sorts)
          /\ Len(sorts) = 2
               => res = SortedStably(SortedStably(sel, sorts[2]), sorts[1])

\* Name ascending then Flag descending, on a table where two records tie on
\* both keys and two tie on Name only, and where the second key alone would
\* order the records differently
C9_Witness ==
  /\ lastOp.op = "select"
  /\ ~lastOp.options.hasIds
  /\ lastOp.options.sorts = <<[field |-> "Name", direction |-> "asc"],
                              [field |-> "Flag", direction |-> "desc"]>>
  /\ [i \in 1..Len(lastOp.result) |-> lastOp.result[i].id]
       = <<"rec002", "rec004", "rec003", "rec001">>
  /\ lastOp.result # SortedStably(records, lastOp.options.sorts[2])
  /\ lastOp.result # records

\* C10: selectRecordsAsync({recordIds}) returns exactly the records of the
\* table whose identifier is in recordIds, each once, in the table's order
\* and not in that of recordIds; identifiers that no record has contribute
\* nothing, and the call leaves the table's records as they are.
C10_RecordIdsFilterInTableOrder ==
  [][(/\ lastOp'.op = "select"
      /\ nCalls' = nCalls + 1
      /\ lastOp'.options.hasIds
      /\ lastOp'.options.sorts = <<>>)
     => LET res == lastOp'.result
            ids == SeqToSet(lastOp'.options.recordIds)
        IN /\ \A i \in 1..Len(res) :
                /\ res[i].id \in ids
                /\ MapHas(records, res[i].id)
                /\ res[i] = MapGet(records, res[i].id)
           /\ \A k \in 1..Len(records) :
                records[k].id \in ids
                  => \E i \in 1..Len(res) :
                       /\ res[i] = records[k]
                       /\ \A j \in 1..Len(res) : res[j] = records[k] => j = i
           /\ \A i, j \in 1..Len(res) :
                i < j => TablePos(res[i]) < TablePos(res[j])
           /\ records' = records
           /\ nextRecordId' = nextRecordId
           /\ csvFile' = csvFile]_vars

\* recordIds name the last record before the first one
C10_Witness ==
  /\ lastOp.op = "select"
  /\ lastOp.options.hasIds
  /\ lastOp.options.sorts = <<>>
  /\ Len(lastOp.options.recordIds) = 2
  /\ Len(lastOp.result) = 2
  /\ lastOp.result[1].id = lastOp.options.recordIds[2]
  /\ lastOp.result[2].id = lastOp.options.recordIds[1]
  /\ Len(records) > 2

\* the entries of a sequence of requests, in the order sent
RECURSIVE Flatten(_)
Flatten(reqs) == IF reqs = <<>> THEN <<>> ELSE Head(reqs) \o Flatten(Tail(reqs))

RemoteBatchDone ==
  lastOp'.op = "remoteUpdateRecords" /\ nCalls' = nCalls + 1

Applied(pre, op, batch, n) ==
  CASE op = "updateRecords" ->
         [p \in 1..Len(pre) |-> AfterEntries(pre[p], batch, n)]
    [] op = "deleteRecords" ->
         LET Kept(r) == r.id \notin {batch[i].id : i \in 1..n}
         IN SelectSeq(pre, Kept)
    [] op = "createRecords" ->
         pre \o [j \in 1..n |->
                   CsvRecordAdapter(
                     NewId(loadFromCsv(loadedFile).nextRecordId + j - 1),
                     batch[j].fields)]
    [] OTHER -> pre

\* a select that follows a batched call on the loaded table
SelectAfterBatch ==
  /\ lastOp.op = "select"
  /\ lastOp.options = NoOptions
  /\ lastOp.before.op \in BatchOps

\* C12 as stated: no selectRecordsAsync returns a state in which only some
\* of the entries of one batched call have taken effect: it sees the table
\* with none or with all of them.
C12_BatchSeenWholeOrNotAtAll ==
  SelectAfterBatch
    => LET pre == loadFromCsv(loadedFile).records
           b == lastOp.before
       IN \/ lastOp.result = pre
          \/ lastOp.result = Applied(pre, b.op, b.batch, Len(b.batch))

\* C12, amended: a selectRecordsAsync that follows a batched call sees every
\* entry of the call in effect when the call returned, and exactly the
\* entries before the failing one, in order and none after it, when the
\* call threw; a batch that failed partway is seen partly applied.
C12_BatchSeenUpToFailure ==
  SelectAfterBatch
    => LET pre == loadFromCsv(loadedFile).records
           b == lastOp.before
       IN /\ b.error = NoError => b.done = Len(b.batch)
          /\ lastOp.result = Applied(pre, b.op, b.batch, b.done)
          /\ lastOp.result = records

\* a select after an update batch that failed at its second entry, with an
\* entry after it that would have changed another record
C12_Witness ==
  /\ SelectAfterBatch
  /\ lastOp.before.op = "updateRecords"
  /\ lastOp.before.error # NoError
  /\ lastOp.before.done = 1
  /\ Len(lastOp.before.batch) = 3
  /\ MapHas(records, lastOp.before.batch[3].id)
  /\ lastOp.result # loadFromCsv(loadedFile).records
  /\ lastOp.result # Applied(loadFromCsv(loadedFile).records, "updateRecords",
                             lastOp.before.batch, 3)

\* the field names that the properties read: those that files and field
\* sets of the model use, and one that no record has
ObservedFields == {"Name", "Flag", "Extra", "Count", "id", "Missing"}

\* C11: a QueryResult returned by selectRecordsAsync is immutable once
\* returned: later create, update and delete calls on the table change
\* neither the sequence of its records, nor what getRecord returns, nor the
\* cell values and names of its records.
C11_QueryResultImmutable ==
  held.has
    => /\ Len(held.records) = Len(held.snapshot)
       /\ \A i \in 1..Len(held.snapshot) :
            /\ held.records[i].id = held.snapshot[i].id
            /\ held.records[i].name = held.snapshot[i].name
            /\ \A f \in ObservedFields :
                 getCellValue(held.records[i], f)
                   = getCellValue(held.snapshot[i], f)
            /\ getRecord(held.records, held.snapshot[i].id)
                 = getRecord(held.snapshot, held.snapshot[i].id)

\* the records that a caller can reach: those of the table and those of the
\* result it holds
ReachableRecords ==
  SeqToSet(records) \cup SeqToSet(held.records) \cup SeqToSet(lastOp.result)

\* C13: for every record of the file-backed table and of the remote wrapper
\* and every field name that is absent from the record or null in it,
\* getCellValue returns null; it never returns undefined, also for a field
\* into which an update wrote undefined.
C13_NullSafety ==
  /\ \A rec \in ReachableRecords, f \in ObservedFields :
       /\ getCellValue(rec, f) # Undefined
       /\ (f \notin DOMAIN rec.fields \/ rec.fields[f] \in {Null, Undefined})
            => getCellValue(rec, f) = Null
  /\ \A rec \in SeqToSet(remoteRecords), f \in ObservedFields :
       /\ AirtableGetCellValue(rec, f) # Undefined
       /\ (f \notin DOMAIN rec.fields \/ rec.fields[f] \in {Null, Undefined})
            => AirtableGetCellValue(rec, f) = Null

\* an update has written undefined into a field of a record that also lacks
\* a field, and the remote table holds a record without the field Count
C13_Witness ==
  /\ lastOp.op = "update"
  /\ Succeeded
  /\ \E rec \in SeqToSet(records) :
       /\ rec.id = lastOp.id
       /\ "Flag" \in DOMAIN rec.fields
       /\ rec.fields["Flag"] = Undefined
       /\ rec.fields["Name"] = Null
       /\ "Missing" \notin DOMAIN rec.fields
  /\ \E rec \in SeqToSet(remoteRecords) : "Count" \notin DOMAIN rec.fields

\* C14: getCellValueAsString always returns a string: the empty string for
\* an absent or null field, the JSON text of an array or object, the
\* natural string form of a number, a boolean or a string; it equals
\* valueToString(getCellValue(field)).
C14_CellValueAsString ==
  \A rec \in ReachableRecords, f \in ObservedFields :
    LET s == getCellValueAsString(rec, f)
        x == getCellValue(rec, f)
    IN /\ s = valueToString(x)
       /\ x.t = "null" => s = ""
       /\ x.t = "object" => JsonParses(s) /\ JsonParse(s) = x
       /\ x.t = "number" => IsNumberText(s) /\ Number(s) = x
       /\ x.t = "boolean" => s \in {"true", "false"} /\ Bool(s = "true") = x
       /\ x.t = "string" => s = x.v

\* the table holds an array, a boolean, a number or a string, and a field
\* that is null after an update
C14_Witness ==
  /\ lastOp.op = "update"
  /\ Succeeded
  /\ \E rec \in SeqToSet(records) : getCellValue(rec, "Flag").t = "object"
  /\ \E rec \in SeqToSet(records) : getCellValue(rec, "Flag").t = "boolean"
  /\ \E rec \in SeqToSet(records) :
       "Name" \in DOMAIN rec.fields /\ rec.fields["Name"] = Null

\* the rule of the constructor: the value of "Name" when it holds one, the
\* identifier otherwise
DerivedName(rec) ==
  IF "Name" \in DOMAIN rec.fields /\ Truthy(rec.fields["Name"])
  THEN rec.fields["Name"]
  ELSE Str(rec.id)

\* C15: after construction and after any sequence of updateRecordAsync
\* calls the name of a record is the current value of its "Name" field when
\* the field holds a value, and its identifier otherwise: every write of
\* "Name" derives the name again by the rule of the constructor.
C15_NameFollowsNameField ==
  \A i \in 1..Len(records) : records[i].name = DerivedName(records[i])

\* a getTable, addTable or loadAllTables call has just been made
BaseCallDone(op) == lastBaseOp'.op = op /\ nCalls' = nCalls + 1

Declared(ts, nameOrId) ==
  \E i \in 1..Len(ts) : ts[i].name = nameOrId \/ ts[i].id = nameOrId

Listed(ts, name) == \E i \in 1..Len(ts) : ts[i].name = name

NamesOf(ts) == {ts[i].name : i \in 1..Len(ts)}

\* C16: on the file-backed and the in-memory base, getTable(nameOrId)
\* returns a table of tables that is declared under that name or identifier,
\* the same object as the call before with that argument; for any other
\* argument it fails with a table-not-found error that names the requested
\* table and lists the names of the tables of the base, and it leaves tables
\* and the table map as they were.
C16_LocalGetTable ==
  [][(BaseCallDone("getTable") /\ baseKind \in {"csv", "mock"}) =>
       LET call == lastBaseOp'
       IN  IF Declared(tables, call.arg)
           THEN /\ call.error = NoBaseError
                /\ call.ret \in SeqToSet(tables)
                /\ call.ret.name = call.arg \/ call.ret.id = call.arg
                /\ (lastBaseOp.op = "getTable" /\ lastBaseOp.arg = call.arg)
                     => call.ret = lastBaseOp.ret
                /\ tables' = tables
           ELSE /\ call.error.kind = "table-not-found"
                /\ call.error.requested = call.arg
                /\ call.error.listsAvailable
                /\ SeqToSet(call.error.available) = NamesOf(tables)
                /\ call.ret = NoTable
                /\ tables' = tables
                /\ tableMap' = tableMap
                /\ nextObject' = nextObject]_vars

\* getTable returns the table known for the name, or else a new one
CachedGetTable ==
  BaseCallDone("getTable") =>
    LET call == lastBaseOp'
    IN  /\ call.error = NoBaseError
        /\ call.ret.name = call.arg
        /\ TableMapGet(tableMap', call.arg) = call.ret
        /\ IF TableMapHas(tableMap, call.arg)
           THEN /\ call.ret = TableMapGet(tableMap, call.arg)
                /\ nextObject' = nextObject
           ELSE /\ call.ret.obj = nextObject
                /\ nextObject' = nextObject + 1

\* C17: on the remote base, getTable(name) never fails; it returns the table
\* known for the name when there is one and otherwise a new table that it
\* caches; all the tables that getTable calls have returned for one name are
\* the same object, whatever calls were made between them.
C17_RemoteGetTableCached ==
  /\ [](baseKind = "airtable" =>
          \A t1, t2 \in returned : t1.name = t2.name => t1 = t2)
  /\ [][baseKind = "airtable" => CachedGetTable]_vars

\* getTable has returned a table that an earlier getTable call made, after
\* another table was made in between
C17_Witness ==
  /\ baseKind = "airtable"
  /\ lastBaseOp.op = "getTable"
  /\ lastBaseOp.ret \notin SeqToSet(tables)
  /\ lastBaseOp.ret.obj + 1 < nextObject
  /\ nCalls = 3

\* C18: on the remote base, tables has a table for every name known so far:
\* declared at construction, made by getTable, added by addTable or
\* discovered by loadAllTables.
C18_TablesListEveryKnownName ==
  baseKind = "airtable" => \A name \in knownNames : Listed(tables, name)

\* C19: after addTable(name) on the remote base, exactly one table of tables
\* has that name.
C19_AddTableListsOnce ==
  (baseKind = "airtable" /\ lastBaseOp.op = "addTable") =>
    Cardinality({i \in 1..Len(tables) : tables[i].name = lastBaseOp.arg}) = 1

\* the names of a list without those listed in ts, each once, in order
RECURSIVE NewlyListed(_, _, _)
NewlyListed(ts, names, i) ==
  IF i > Len(names) THEN <<>>
  ELSE LET rest == NewlyListed(ts, names, i + 1)
       IN  IF Listed(ts, names[i])
              \/ \E j \in 1..(i - 1) : names[j] = names[i]
           THEN rest
           ELSE <<names[i]>> \o rest

\* C20: when the metadata request succeeds, loadAllTables makes every
\* discovered name resolvable and listed in tables, the new ones after the
\* tables listed before and in the order of discovery; when the request is
\* answered with a non-success status or fails, loadAllTables fails (with the
\* status and the required read scope in the error of a non-success answer)
\* and tables and the table map are as before.
C20_LoadAllTablesAllOrNothing ==
  [][(BaseCallDone("loadAllTables") /\ baseKind = "airtable") =>
       LET call == lastBaseOp'
           new == NewlyListed(tables, call.response.names, 1)
       IN  IF call.response.kind = "ok"
           THEN /\ call.error = NoBaseError
                /\ \A name \in SeqToSet(call.response.names) :
                     /\ TableMapHas(tableMap', name)
                     /\ Listed(tables', name)
                /\ Len(tables') = Len(tables) + Len(new)
                /\ SubSeq(tables', 1, Len(tables)) = tables
                /\ \A i \in 1..Len(new) :
                     tables'[Len(tables) + i].name = new[i]
           ELSE /\ call.error # NoBaseError
                /\ call.response.kind = "status" =>
                     /\ call.error.status = call.response.status
                     /\ call.error.namesReadScope
                /\ tables' = tables
                /\ tableMap' = tableMap]_vars

\* AirtableLocalError.code of the error classes; what the adapters throw with
\* new Error(...) is of class Error and has no code
ErrorCode(class) ==
  CASE class = "RecordNotFoundError" -> "RECORD_NOT_FOUND"
    [] class = "TableNotFoundError" -> "TABLE_NOT_FOUND"
    [] class = "FieldNotFoundError" -> "FIELD_NOT_FOUND"
    [] class = "ValidationError" -> "VALIDATION_ERROR"
    [] class = "ApiError" -> "API_ERROR"
    [] OTHER -> ""

\* C21: every error of an adapter operation carries its kind: the code of a
\* record-not-found error for an unknown record identifier, of a
\* table-not-found error for an unknown table, of a field-not-found error for
\* an unknown field, and of an API error for a failed metadata request.
C21_ErrorsCarryKind ==
  /\ lastOp.error.kind = "record-not-found"
       => ErrorCode(lastOp.error.class) = "RECORD_NOT_FOUND"
  /\ lastOp.error.kind = "field-not-found"
       => ErrorCode(lastOp.error.class) = "FIELD_NOT_FOUND"
  /\ lastBaseOp.error.kind = "table-not-found"
       => ErrorCode(lastBaseOp.error.class) = "TABLE_NOT_FOUND"
  /\ lastBaseOp.error.kind \in {"metadata-failed", "network"}
       => ErrorCode(lastBaseOp.error.class) = "API_ERROR"

\* new ValidationError(message, field, value)
ValidationFailed(field) ==
  [kind |-> "validation", class |-> "ValidationError", id |-> field]

\* validateFieldSet(fields): the error that it throws, NoError when it
\* returns; the field sets of the model are objects, so isFieldSet holds
validateFieldSet(fs) ==
  IF \E key \in DOMAIN fs : Trim(key) = ""
  THEN ValidationFailed(CHOOSE key \in DOMAIN fs : Trim(key) = "")
  ELSE IF \E key \in DOMAIN fs : fs[key] = Undefined
  THEN ValidationFailed(CHOOSE key \in DOMAIN fs : fs[key] = Undefined)
  ELSE NoError

\* C22: createRecordAsync and updateRecordAsync with a field set that
\* validateFieldSet rejects (a field whose value is undefined) fail with the
\* validation error, and neither the records nor the file change.
C22_MalformedFieldsRejected ==
  [][(lastOp'.op \in {"create", "update"} /\ nCalls' = nCalls + 1
        /\ validateFieldSet(lastOp'.fields) # NoError) =>
       /\ lastOp'.error.kind = "validation"
       /\ records' = records
       /\ csvFile' = csvFile]_vars

\* the rows of the file that the table was loaded from
LoadedRows == parseCsv(loadedFile)

\* C23: getField(nameOrId) on a file-backed table returns a declared field
\* whose name or identifier is the argument and fails with a field-not-found
\* error when there is none, as for every argument when the file has no data
\* row; getField on a remote table does not fail and returns a descriptor
\* whose name and identifier are the argument.
C23_GetField ==
  /\ lastOp.op = "getField" =>
       IF \E i \in 1..Len(fields) :
            fields[i].name = lastOp.id \/ fields[i].id = lastOp.id
       THEN /\ lastOp.error = NoError
            /\ Len(lastOp.ret) = 1
            /\ lastOp.ret[1] \in SeqToSet(fields)
            /\ lastOp.ret[1].name = lastOp.id \/ lastOp.ret[1].id = lastOp.id
       ELSE /\ lastOp.error.kind = "field-not-found"
            /\ lastOp.error.id = lastOp.id
            /\ lastOp.ret = <<>>
  /\ (lastOp.op = "getField" /\ Len(LoadedRows) = 0) =>
       lastOp.error.kind = "field-not-found"
  /\ lastOp.op = "remoteGetField" =>
       /\ lastOp.error = NoError
       /\ Len(lastOp.ret) = 1
       /\ lastOp.ret[1].name = lastOp.id
       /\ lastOp.ret[1].id = lastOp.id

\* getField has found a field by its identifier
C23_Witness ==
  /\ lastOp.op = "getField"
  /\ lastOp.error = NoError
  /\ lastOp.ret[1].id = lastOp.id
  /\ lastOp.ret[1].name # lastOp.id

\* what the precedence of the conversion asks of the value of a cell text
ConvertedAs(text, value) ==
  IF text = "" THEN value = Null
  ELSE IF toLowerCase(text) = "true" THEN value = Bool(TRUE)
  ELSE IF toLowerCase(text) = "false" THEN value = Bool(FALSE)
  ELSE IF Trim(text) # "" /\ AllDigits(Trim(text))
  THEN value.t = "number" /\ DigitsToNat(value.v) = DigitsToNat(Trim(text))
  ELSE IF /\ \/ startsWith(text, "[") /\ endsWith(text, "]")
             \/ startsWith(text, "{") /\ endsWith(text, "}")
          /\ JsonParses(text)
  THEN value.t = "object" /\ value.v = RemoveBlanks(text)
  ELSE value = Str(text)

\* C24: after the load, the value of every field of every record is the
\* conversion of its cell text by the precedence null, boolean, number, JSON,
\* raw string; a text that a later update writes is not converted.
C24_CellConversion ==
  /\ (lastOp.op = "construct" /\ Len(records) = Len(LoadedRows)) =>
       \A i \in 1..Len(records) :
         \A key \in DOMAIN LoadedRows[i] :
           NotIdKey(key) =>
             /\ key \in DOMAIN records[i].fields
             /\ ConvertedAs(LoadedRows[i][key], records[i].fields[key])
  /\ (lastOp.op = "update" /\ lastOp.error = NoError) =>
       \A key \in DOMAIN lastOp.fields :
         MapGet(records, lastOp.id).fields[key] = lastOp.fields[key]

\* a table loaded with a boolean, a number, a JSON value and a raw string
\* that looks like JSON
C24_Witness ==
  /\ lastOp.op = "construct"
  /\ Len(records) = 2
  /\ Len(LoadedRows) = 2
  /\ "Name" \in DOMAIN records[1].fields
  /\ records[1].fields["Name"].t \in {"boolean", "number", "object"}
  /\ "Name" \in DOMAIN records[2].fields
  /\ records[2].fields["Name"] = Str("[1, 2")

\* C25: a file with N data rows loads as N records, one for each row and in
\* row order; the identifier of a row that has one is kept, and the
\* identifiers of the records differ from each other.
C25_OneRecordPerRow ==
  lastOp.op = "construct" =>
    /\ Len(records) = Len(LoadedRows)
    /\ \A i \in 1..Len(records) :
         RowId(LoadedRows[i]) # "" => records[i].id = RowId(LoadedRows[i])
    /\ \A i, j \in 1..Len(records) : records[i].id = records[j].id => i = j

\* the columns of the header that are not the identifier column
RECURSIVE NonIdColumns(_)
NonIdColumns(header) ==
  IF header = <<>> THEN <<>>
  ELSE (IF NotIdKey(Head(header)) THEN <<Head(header)>> ELSE <<>>)
         \o NonIdColumns(Tail(header))

\* C26: the declared fields of a table loaded from a file with data rows are
\* the header columns other than the identifier column, in header order and
\* of the text type; getField does not resolve the identifier column.
C26_DeclaredFields ==
  /\ Len(LoadedRows) > 0 =>
       /\ Len(fields) = Len(NonIdColumns(loadedFile.header))
       /\ \A i \in 1..Len(fields) :
            /\ fields[i].name = NonIdColumns(loadedFile.header)[i]
            /\ fields[i].type = "singleLineText"
  /\ (lastOp.op = "getField" /\ ~NotIdKey(lastOp.id)) =>
       lastOp.error.kind = "field-not-found"

RemoteBatchCallDone ==
  /\ lastOp'.op \in {"remoteCreateRecords", "remoteUpdateRecords",
                     "remoteDeleteRecords"}
  /\ nCalls' = nCalls + 1

CeilDiv(n, d) == (n + d - 1) \div d

\* the identifiers that createRecordsAsync returned name, in input order,
\* the records that the service made for the entries
CreatedInInputOrder(store, batch, ret) ==
  /\ Len(ret) = Len(batch)
  /\ \A j \in 1..Len(ret) :
       /\ MapHas(store, ret[j])
       /\ MapGet(store, ret[j]).fields = batch[j].fields
       /\ \A k \in 1..Len(ret) : ret[k] = ret[j] => k = j

\* C27 as stated: a remote batched call with n entries issues ceil(n/10)
\* backend calls of at most 10 entries each, the entries of the calls are the
\* input in input order, and createRecordsAsync returns the created
\* identifiers in input order.
C27_AllChunksIssued ==
  [][RemoteBatchCallDone =>
       LET b == lastOp'.batch
       IN  /\ Len(requests') = CeilDiv(Len(b), 10)
           /\ \A q \in 1..Len(requests') : Len(requests'[q]) <= 10
           /\ Flatten(requests') = b
           /\ lastOp'.op = "remoteCreateRecords" =>
                CreatedInInputOrder(remoteRecords', b, lastOp'.ret)]_vars

\* C27, amended: a remote batched call with n entries issues backend calls
\* of 10 entries each (the last one of at most 10) that carry the input in
\* input order, one after the other.  When no backend call fails there are
\* ceil(n/10) of them, they carry the whole input and createRecordsAsync
\* returns the created identifiers in input order.  When a backend call
\* fails, it is the last one issued, the calls carry a prefix of the input,
\* and the batched call rejects with the error of that backend call
\* without returning identifiers.
C27_ChunksUntilFailure ==
  [][RemoteBatchCallDone =>
       LET b == lastOp'.batch
           sent == Flatten(requests')
       IN  /\ \A q \in 1..Len(requests') :
                /\ Len(requests'[q]) <= 10
                /\ Len(requests'[q]) >= 1
                /\ q < Len(requests') => Len(requests'[q]) = 10
           /\ Len(sent) <= Len(b)
           /\ sent = SubSeq(b, 1, Len(sent))
           /\ IF lastOp'.error = NoError
              THEN /\ Len(requests') = CeilDiv(Len(b), 10)
                   /\ sent = b
                   /\ lastOp'.op = "remoteCreateRecords" =>
                        CreatedInInputOrder(remoteRecords', b, lastOp'.ret)
              ELSE /\ Len(requests') >= 1
                   /\ Len(requests') <= CeilDiv(Len(b), 10)
                   /\ lastOp'.error.kind = "remote-rejected"
                   /\ lastOp'.ret = <<>>]_vars

\* a batched create of more than 10 entries whose first backend call failed
C27_Witness ==
  /\ lastOp.op = "remoteCreateRecords"
  /\ Len(lastOp.batch) > 10
  /\ lastOp.error # NoError
  /\ Len(requests) = 1
  /\ Len(requests[1]) = 10

IdsOf(recs) == {recs[i].id : i \in 1..Len(recs)}

\* C28: the identifier that createRecordAsync returns is not held by a record
\* of the table, was not held by a record that was loaded from the file or
\* that the call before deleted, and the identifier counter never decreases,
\* whatever loads, creates and deletes are made.
C28_FreshIdentifiers ==
  /\ [][(lastOp'.op = "create" /\ nCalls' = nCalls + 1) =>
          /\ Len(lastOp'.ret) = 1
          /\ lastOp'.ret[1] \notin IdsOf(records)
          /\ lastOp'.ret[1] \notin IdsOf(loadFromCsv(loadedFile).records)
          /\ lastOp.op = "delete" => lastOp'.ret[1] # lastOp.id]_vars
  /\ [][nextRecordId' >= nextRecordId]_vars

\* C29: updateRecordAsync changes the fields named in its field set, of the
\* record with the identifier, and nothing else: the other fields of that
\* record, the other records, their number and their order stay;
\* createRecordAsync appends the new record after the existing ones, and
\* deleteRecordAsync removes the named record and keeps the order of the
\* others.
C29_SingleCallFrame ==
  [][(nCalls' = nCalls + 1 /\ lastOp'.error = NoError) =>
       /\ lastOp'.op = "update" =>
            /\ Len(records') = Len(records)
            /\ \A i \in 1..Len(records) :
                 /\ records'[i].id = records[i].id
                 /\ records[i].id # lastOp'.id => records'[i] = records[i]
                 /\ records[i].id = lastOp'.id =>
                      /\ DOMAIN records'[i].fields
                           = DOMAIN records[i].fields \cup DOMAIN lastOp'.fields
                      /\ \A key \in DOMAIN records'[i].fields :
                           records'[i].fields[key]
                             = IF key \in DOMAIN lastOp'.fields
                               THEN lastOp'.fields[key]
                               ELSE records[i].fields[key]
       /\ lastOp'.op = "create" =>
            /\ Len(records') = Len(records) + 1
            /\ SubSeq(records', 1, Len(records)) = records
            /\ records'[Len(records')].id = lastOp'.ret[1]
            /\ records'[Len(records')].fields = lastOp'.fields
       /\ lastOp'.op = "delete" =>
            /\ MapHas(records, lastOp'.id)
            /\ records' = SelectSeq(records,
                                    LAMBDA rec : rec.id # lastOp'.id)]_vars

\* an update has kept a field that its field set does not name, on a table
\* of two records
C29_Witness ==
  /\ lastOp.op = "update"
  /\ lastOp.error = NoError
  /\ Len(records) >= 2
  /\ \E key \in DOMAIN MapGet(records, lastOp.id).fields :
       /\ key \notin DOMAIN lastOp.fields
       /\ MapGet(records, lastOp.id).fields[key] # Null

\* C30: on the remote base no two entries of tables have the same name,
\* every entry of tables is the table that getTable returns for its name, and
\* no call removes or replaces an entry of tables or of the table map.
C30_RemoteTablesConsistent ==
  /\ [](baseKind = "airtable" =>
          /\ \A i, j \in 1..Len(tables) :
               tables[i].name = tables[j].name => i = j
          /\ \A i \in 1..Len(tables) :
               AirtableBaseGetTable(TheBase, tables[i].name).ret = tables[i])
  /\ [][baseKind = "airtable" =>
          /\ Len(tables') >= Len(tables)
          /\ SubSeq(tables', 1, Len(tables)) = tables
          /\ \A i \in 1..Len(tableMap) :
               TableMapGet(tableMap', tableMap[i].key) = tableMap[i].table]_vars

\* the last call was a single create, update or delete that succeeded
SingleMutationDone ==
  lastOp.op \in {"create", "update", "delete"} /\ Succeeded

\* the identifiers of the rows of a file as a table loads them, in row order
RowIds(file) ==
  LET rows == parseCsv(file) IN [i \in 1..Len(rows) |-> RowId(rows[i])]

\* no record of the table holds a field named "id"
NoIdField == \A i \in 1..Len(records) : "id" \notin DOMAIN records[i].fields

\* C6: with auto-save enabled, after every successful createRecordAsync,
\* updateRecordAsync or deleteRecordAsync the backing file holds exactly
\* one row per record of the table, with the same identifiers, none twice.
C6_FileHoldsOneRowPerRecord ==
  (autoSave /\ SingleMutationDone)
    => /\ csvFile.exists
       /\ RowIds(csvFile) = [i \in 1..Len(records) |-> records[i].id]
       /\ \A i, j \in 1..Len(csvFile.rows) :
            RowIds(csvFile)[i] = RowIds(csvFile)[j] => i = j

\* the types of value that the round trip is stated for
RoundTripTypes == {"boolean", "number", "null", "object", "string"}

\* C7: for every record and every declared field of a table saved with
\* auto-save enabled, loading the written file again yields the typed value
\* that the record held before the save (boolean, number, null, JSON array
\* or object, plain string), for records that hold no field named "id".
C7_RoundTrip ==
  (autoSave /\ SingleMutationDone /\ NoIdField)
    => LET again == loadFromCsv(csvFile).records
       IN \A i \in 1..Len(records) :
            \A f \in DOMAIN records[i].fields \cap SeqToSet(fieldNames) :
              (NotIdKey(f) /\ records[i].fields[f].t \in RoundTripTypes)
                => /\ MapHas(again, records[i].id)
                   /\ f \in DOMAIN MapGet(again, records[i].id).fields
                   /\ MapGet(again, records[i].id).fields[f]
                        = records[i].fields[f]

\* C8: after updateRecordAsync with any field set the record is still found
\* under its identifier in the table, and with auto-save enabled the saved
\* file, loaded again, holds a record with that identifier.
C8_IdentifierImmutable ==
  (lastOp.op = "update" /\ Succeeded)
    => /\ MapHas(records, lastOp.id)
       /\ autoSave => MapHas(loadFromCsv(csvFile).records, lastOp.id)

\* the mutation of the last call as a later selectRecordsAsync() shows it
LastCallVisible ==
  LET result == SelectResult(records, NoOptions)
  IN /\ (lastOp.op = "create" =>
           /\ getRecord(result, lastOp.ret[1]) # NoRecord
           /\ getRecord(result, lastOp.ret[1]).fields = lastOp.fields)
     /\ (lastOp.op = "update" /\ Succeeded =>
           /\ getRecord(result, lastOp.id) # NoRecord
           /\ \A k \in DOMAIN lastOp.fields :
                getRecord(result, lastOp.id).fields[k] = lastOp.fields[k])
     /\ (lastOp.op = "delete" /\ Succeeded =>
           getRecord(result, lastOp.id) = NoRecord)
     /\ (lastOp.op = "createRecords" =>
           \A i \in 1..Len(lastOp.ret) :
             getRecord(result, lastOp.ret[i]) # NoRecord)
     /\ (lastOp.op = "updateRecords" =>
           \A i \in 1..lastOp.done :
             getRecord(result, lastOp.batch[i].id) # NoRecord)
     /\ (lastOp.op = "deleteRecords" =>
           \A i \in 1..lastOp.done :
             getRecord(result, lastOp.batch[i].id) = NoRecord)

\* C5: with auto-save disabled no call writes the file, whose content stays
\* what it was when the table was loaded, and the mutation of the last call
\* shows in the result of a later selectRecordsAsync.
C5_NoAutoSaveNoWrite ==
  ~autoSave => (/\ csvFile = loadedFile
                /\ ~lastOp.wrote
                /\ LastCallVisible)

C5_Witness ==
  /\ ~autoSave
  /\ lastOp.op = "updateRecords"
  /\ lastOp.done >= 1
  /\ nCalls >= 2
  /\ records # loadFromCsv(csvFile).records

====
